---- MODULE Spec2Model ----
(***************************************************************************)
(* Model of the xact execution engine: the per-process scheduler           *)
(* (xact/proc), the node runtime (xact/node), the inter-process queue      *)
(* (xact/queue/multiprocessing.py), the inter-host server queue            *)
(* (xact/queue/zmq_server.py) and the way the host agent and the           *)
(* orchestrator launch a scheduler (xact/host, xact/sys).                  *)
(***************************************************************************)
EXTENDS Integers, Sequences, FiniteSets, TLC

(***************************************************************************)
(* Bounds of the model.                                                    *)
(***************************************************************************)
\* Largest number of ResetAndRetry signals a process honours.
MaxTry == 2
\* Largest number of calls of the step function of a node whose
\* functionality is left arbitrary.
MaxStep == 2
\* Largest number of payloads the remote publisher of an inter-host edge sends.
MaxRemote == 2
\* Largest number of items in flight in one inter-process queue: a producer
\* is not scheduled while that many of its items are unread.
MaxInFlight == 2
\* Largest number of edges of a data flow graph drawn for the run order.
MaxEdge == 2

\* Largest number of successive applications of xact.cfg.denormalize.
MaxApply == 2
\* Largest distance from empty and from full of the fill levels of a queue
\* under test.
MaxSlack == 3
\* Longest chain of data types each of which refers to the next.
MaxChain == 17
\* The largest number of arcs of a graph given to topological_sort.
MaxArcs == 4

(***************************************************************************)
(* Program constants.                                                      *)
(***************************************************************************)
\* The count at which the test nodes halt (simple_counter, simple_messager,
\* feedback_decisioner).
CountLimit == 10
\* The number of passes after which GapTable.fill_all gives up.
sanity_limit == 16

(***************************************************************************)
(* Values: control signals (xact/signal), other exceptions, other return   *)
(* values.  type is type(value).__name__ for signals.                      *)
(***************************************************************************)
Value(type, return_code, cause) ==
    [type |-> type, return_code |-> return_code, cause |-> cause]

None == Value("None", 0, "")

Halt(return_code) == Value("Halt", return_code, "")

ResetAndRetry == Value("ResetAndRetry", 0, "")

NonRecoverableError(cause) == Value("NonRecoverableError", 0, cause)

\* An instance of a user-defined subclass of ControlSignal: caught as a
\* ControlSignal, but its class name is none of the three signal names.
UserSignal == Value("UserSignal", 0, "")

\* A return value that is neither None nor an exception instance.
Object == Value("Object", 0, "")

\* An exception that derives from Exception and is no ControlSignal.
Error(cause) == Value("Exception", 0, cause)

\* An exception that derives from BaseException only.
KeyboardInterrupt == Value("BaseException", 0, "KeyboardInterrupt")

IsControlSignal(v) ==
    v.type \in {"Halt", "ResetAndRetry", "NonRecoverableError", "UserSignal"}

\* isinstance(v, Exception): ControlSignal derives from Exception.
IsException(v) == IsControlSignal(v) \/ v.type = "Exception"

(***************************************************************************)
(* The outcome of a call: it returns a value or raises one.                *)
(***************************************************************************)
Return(v) == [kind |-> "return", val |-> v]

Raise(v) == [kind |-> "raise", val |-> v]

\* What a reset or step function supplied by the user may do.
HaltCodes == {0, 1, 2}

Signals ==
    {Halt(c) : c \in HaltCodes}
        \cup {ResetAndRetry, NonRecoverableError("user"), UserSignal}

ArbitraryOutcomes ==
    {Return(v) : v \in Signals \cup {None, Object}}
        \cup {Raise(v) : v \in Signals \cup {Error("ValueError"), KeyboardInterrupt}}

(***************************************************************************)
(* xact.node._call_step and _call_reset: adapters for the ways a function   *)
(* hands over a signal.  fcn is None or "fcn"; out is the outcome of        *)
(* invoking the function.                                                   *)
(***************************************************************************)
\* Variant of _call_step without the ControlSignal clause: a raised signal
\* is handled by the Exception clause.  It is not the code: C5 fails
\* under it, which shows that C5 depends on _call_step.
_call_step_signal_as_error(fcn_step, out) ==
    IF fcn_step = "None" THEN Return(None)
    ELSE IF out.kind = "return" THEN Return(out.val)
    ELSE IF IsException(out.val) THEN Return(NonRecoverableError(out.val.cause))
    ELSE Raise(out.val)

_call_step(fcn_step, out) ==
    IF fcn_step = "None" THEN Return(None)
    ELSE IF out.kind = "return" THEN Return(out.val)
    ELSE IF IsControlSignal(out.val) THEN Return(out.val)
    ELSE IF IsException(out.val) THEN Return(NonRecoverableError(out.val.cause))
    ELSE Raise(out.val)

_call_reset(fcn_reset, out) ==
    IF fcn_reset = "None" THEN Return(None)
    ELSE IF out.kind = "return" THEN Return(out.val)
    ELSE IF IsControlSignal(out.val) THEN Return(out.val)
    ELSE IF IsException(out.val) THEN Return(NonRecoverableError(out.val.cause))
    ELSE Raise(out.val)

\* Node.reset: calls _call_reset and has no return statement, so what
\* _call_reset returns is dropped; what it raises propagates.
Node_reset(fcn_reset, out) ==
    LET res == _call_reset(fcn_reset, out)
    IN  IF res.kind = "raise" THEN res ELSE Return(None)

(***************************************************************************)
(* xact.proc._handle_signals: None when nothing is raised, else the signal  *)
(* that is raised.                                                          *)
(***************************************************************************)
\* Variant of priority_order that ranks Halt first.  It is not the code:
\* C1 fails under it, which shows that C1 depends on priority_order.
priority_order_halt_first == <<"Halt", "NonRecoverableError", "ResetAndRetry">>

priority_order == <<"NonRecoverableError", "Halt", "ResetAndRetry">>

\* Variant of FirstOfType that tests isinstance(signal, Halt) for the name
\* Halt, with the user-defined signal class derived from Halt.  It is not the
\* code: C38 fails under it, which shows that C38 depends on the comparison
\* of class names.
FirstOfType_isinstance(list_signal, name) ==
    LET idxs == {i \in 1..Len(list_signal) :
                     \/ list_signal[i].type = name
                     \/ name = "Halt" /\ list_signal[i].type = "UserSignal"}
    IN  IF idxs = {} THEN None
        ELSE list_signal[CHOOSE i \in idxs : \A j \in idxs : i <= j]

\* The first signal of list_signal whose class name is name, or None.
FirstOfType(list_signal, name) ==
    LET idxs == {i \in 1..Len(list_signal) : list_signal[i].type = name}
    IN  IF idxs = {} THEN None
        ELSE list_signal[CHOOSE i \in idxs : \A j \in idxs : i <= j]

RECURSIVE RaiseInOrder(_, _, _)
RaiseInOrder(list_signal, order, k) ==
    IF k > Len(order) THEN None
    ELSE IF FirstOfType(list_signal, order[k]) # None
         THEN FirstOfType(list_signal, order[k])
         ELSE RaiseInOrder(list_signal, order, k + 1)

_handle_signals(list_signal) ==
    IF list_signal = <<>> THEN None
    ELSE RaiseInOrder(list_signal, priority_order, 1)

(***************************************************************************)
(* Configurations.  A normalized config gives each process its host, each  *)
(* node its process and functionality, and the edges in declaration order. *)
(***************************************************************************)
\* All node ids, in the order sorted() gives them (lexicographic).
NodeOrder == <<"a", "b", "c", "r">>

NodeIds == {NodeOrder[i] : i \in 1..Len(NodeOrder)}

ProcessIds == {"p1", "p2", "mainprocess"}

EdgeCfg(owner, src, dst, dirn) ==
    [owner |-> owner, id_node_src |-> src, id_node_dst |-> dst, dirn |-> dirn]

NodeCfg(process, functionality) ==
    [process |-> process, functionality |-> functionality]

\* Three nodes of arbitrary functionality in one process, no edges.
ArbitraryCfg ==
    [process |-> [p \in {"p1"} |-> "localhost"],
     node    |-> [n \in {"a", "b", "c"} |-> NodeCfg("p1", "arbitrary")],
     edge    |-> <<>>]

\* A local node a with an inter-host input edge and an inter-host output
\* edge, both owned by a, whose other ends are on a remote host.
TransportCfg ==
    [process |-> [p \in {"p1", "p2"} |->
                      IF p = "p1" THEN "localhost" ELSE "remote"],
     node    |-> [n \in {"a", "r"} |->
                      IF n = "a" THEN NodeCfg("p1", "arbitrary")
                                 ELSE NodeCfg("p2", "arbitrary")],
     edge    |-> <<EdgeCfg("a", "r", "a", "feedforward"),
                   EdgeCfg("a", "a", "r", "feedforward")>>]

\* Two local nodes a and b in one process; b has an inter-host input edge,
\* owned by b, from a node on a remote host.
PostponedCfg ==
    [process |-> [p \in {"p1", "p2"} |->
                      IF p = "p1" THEN "localhost" ELSE "remote"],
     node    |-> [n \in {"a", "b", "r"} |->
                      IF n = "r" THEN NodeCfg("p2", "arbitrary")
                                 ELSE NodeCfg("p1", "arbitrary")],
     edge    |-> <<EdgeCfg("b", "r", "b", "feedforward")>>]

\* A producer a of arbitrary functionality and the consumer b of the system
\* tests, each in a process of its own on localhost, with the edge a -> b
\* between them.
OrphanedCfg ==
    [process |-> [p \in {"p1", "p2"} |-> "localhost"],
     node    |-> [n \in {"a", "b"} |->
                      IF n = "a" THEN NodeCfg("p1", "arbitrary")
                                 ELSE NodeCfg("p2", "simple_messager")],
     edge    |-> <<EdgeCfg("a", "a", "b", "feedforward")>>]

\* A coroutine node a of arbitrary functionality with two consumers: b in
\* the process of a (an intra-process edge) and c in a process of its own
\* (an inter-process edge).
CoroOutputsCfg ==
    [process |-> [p \in {"p1", "p2"} |-> "localhost"],
     node    |-> [n \in {"a", "b", "c"} |->
                      IF n = "a" THEN NodeCfg("p1", "arbitrary_coro")
                      ELSE NodeCfg(IF n = "b" THEN "p1" ELSE "p2",
                                   "simple_messager")],
     edge    |-> <<EdgeCfg("a", "a", "b", "feedforward"),
                   EdgeCfg("a", "a", "c", "feedforward")>>]

\* As ArbitraryCfg, with the py_module of node b naming a module that does
\* not exist (the config of it_displays_import_errors).
InvalidModuleCfg ==
    [process |-> [p \in {"p1"} |-> "localhost"],
     node    |-> [n \in {"a", "b", "c"} |->
                      NodeCfg("p1", IF n = "b" THEN "invalid.import.spec"
                                               ELSE "arbitrary")],
     edge    |-> <<>>]

\* The pipeline of the system tests: a.outputs.output -> b.inputs.input,
\* closed by the feedback edge b.outputs.output -> a.inputs.input.
PipelineCfg(is_closed_loop, proc_a, proc_b) ==
    [process |-> [p \in {proc_a, proc_b} |-> "localhost"],
     node    |-> [n \in {"a", "b"} |->
                      IF n = "a"
                      THEN NodeCfg(proc_a, IF is_closed_loop
                                           THEN "feedback_counter"
                                           ELSE "simple_counter")
                      ELSE NodeCfg(proc_b, IF is_closed_loop
                                           THEN "feedback_decisioner"
                                           ELSE "simple_messager")],
     edge    |-> IF is_closed_loop
                 THEN <<EdgeCfg("a", "a", "b", "feedforward"),
                        EdgeCfg("b", "b", "a", "feedback")>>
                 ELSE <<EdgeCfg("a", "a", "b", "feedforward")>>]

\* The pipeline of it_supports_coroutines: as the open pipeline, with both
\* nodes supplied as coroutines.
CoroPipelineCfg(proc_a, proc_b) ==
    [process |-> [p \in {proc_a, proc_b} |-> "localhost"],
     node    |-> [n \in {"a", "b"} |->
                      IF n = "a" THEN NodeCfg(proc_a, "coro_counter")
                                 ELSE NodeCfg(proc_b, "coro_messager")],
     edge    |-> <<EdgeCfg("a", "a", "b", "feedforward")>>]

Scenario(name, same_process, is_distributed) ==
    [name |-> name, same_process |-> same_process,
     is_distributed |-> is_distributed]

Scenarios ==
    {Scenario("arbitrary", TRUE, d) : d \in BOOLEAN}
        \cup {Scenario("transport", FALSE, TRUE)}
        \cup {Scenario("postponed", FALSE, TRUE)}
        \cup {Scenario("orphaned", FALSE, TRUE)}
        \cup {Scenario("coro_outputs", FALSE, TRUE)}
        \cup {Scenario(n, s, TRUE) :
                  n \in {"open_loop", "closed_loop"}, s \in BOOLEAN}
        \cup {Scenario(n, FALSE, FALSE) : n \in {"open_loop", "closed_loop"}}
        \cup {Scenario("coro_open_loop", TRUE, FALSE)}
        \cup {Scenario("invalid_module", TRUE, d) : d \in BOOLEAN}

NormalizedCfg(sc) ==
    CASE sc.name = "arbitrary" -> ArbitraryCfg
      [] sc.name = "transport" -> TransportCfg
      [] sc.name = "postponed" -> PostponedCfg
      [] sc.name = "orphaned" -> OrphanedCfg
      [] sc.name = "coro_outputs" -> CoroOutputsCfg
      [] sc.name = "open_loop" ->
             PipelineCfg(FALSE, "p1", IF sc.same_process THEN "p1" ELSE "p2")
      [] sc.name = "closed_loop" ->
             PipelineCfg(TRUE, "p1", IF sc.same_process THEN "p1" ELSE "p2")
      [] sc.name = "coro_open_loop" -> CoroPipelineCfg("p1", "p1")
      [] sc.name = "invalid_module" -> InvalidModuleCfg

(***************************************************************************)
(* xact.cfg.edge: denormalisation of the edges.                            *)
(***************************************************************************)
_ipc_type(is_intra_process, is_inter_process, is_inter_host) ==
    IF is_intra_process THEN "intra_process"
    ELSE IF is_inter_process THEN "inter_process"
    ELSE IF is_inter_host THEN "inter_host"
    ELSE "RuntimeError"

\* _add_ipc_type with is_inter_process computed without the test of the hosts.
_add_ipc_type_process_only(id_process_src, id_process_dst, id_host_src, id_host_dst) ==
    LET is_same_process == (id_process_src = id_process_dst)
        is_same_host    == (id_host_src = id_host_dst)
    IN  _ipc_type(is_same_host /\ is_same_process,
                  ~is_same_process,
                  (~is_same_host) /\ (~is_same_process))

_add_ipc_type(id_process_src, id_process_dst, id_host_src, id_host_dst) ==
    LET is_same_process == (id_process_src = id_process_dst)
        is_same_host    == (id_host_src = id_host_dst)
    IN  _ipc_type(is_same_host /\ is_same_process,
                  is_same_host /\ ~is_same_process,
                  (~is_same_host) /\ (~is_same_process))

HostOfNode(cfg, id_node) == cfg.process[cfg.node[id_node].process]

\* _add_host_owner: the host of the node that owns edge number k.
_add_host_owner(cfg, k) == HostOfNode(cfg, cfg.edge[k].owner)

\* The ipc_type that _add_ipc_type gives edge number k.
IpcTypeOfEdge(cfg, k) ==
    _add_ipc_type(cfg.node[cfg.edge[k].id_node_src].process,
                  cfg.node[cfg.edge[k].id_node_dst].process,
                  HostOfNode(cfg, cfg.edge[k].id_node_src),
                  HostOfNode(cfg, cfg.edge[k].id_node_dst))

\* map_idx_edge[id_host_owner] of a collections.defaultdict(int).
defaultdict_get(map_idx_edge, id_host_owner) ==
    IF id_host_owner \in DOMAIN map_idx_edge
    THEN map_idx_edge[id_host_owner]
    ELSE 0

\* The loop body without map_idx_edge[id_host_owner] += 1.
_increment_idx_edge_skipped(map_idx_edge, id_host_owner) ==
    [h \in (DOMAIN map_idx_edge) \cup {id_host_owner} |->
         defaultdict_get(map_idx_edge, h)]

\* map_idx_edge[id_host_owner] += 1.
_increment_idx_edge(map_idx_edge, id_host_owner) ==
    [h \in (DOMAIN map_idx_edge) \cup {id_host_owner} |->
         IF h = id_host_owner
         THEN defaultdict_get(map_idx_edge, h) + 1
         ELSE map_idx_edge[h]]

\* map_idx_edge when the loop of _denormalize_edges comes to edge number i.
RECURSIVE map_idx_edge_at(_, _)
map_idx_edge_at(cfg, i) ==
    IF i = 1 THEN <<>>
    ELSE IF IpcTypeOfEdge(cfg, i - 1) = "inter_host"
         THEN _increment_idx_edge(map_idx_edge_at(cfg, i - 1),
                                  _add_host_owner(cfg, i - 1))
         ELSE map_idx_edge_at(cfg, i - 1)

\* The denormalised form of edge number i of cfg.
DenormalizedEdge(cfg, i) ==
    LET e     == cfg.edge[i]
        src   == e.id_node_src
        dst   == e.id_node_dst
    IN  [id_edge         |-> i,
         owner           |-> e.owner,
         id_node_src     |-> src,
         id_node_dst     |-> dst,
         dirn            |-> e.dirn,
         id_host_src     |-> HostOfNode(cfg, src),
         id_host_dst     |-> HostOfNode(cfg, dst),
         id_host_owner   |-> _add_host_owner(cfg, i),
         list_id_process |-> {cfg.node[src].process, cfg.node[dst].process},
         list_id_host    |-> {HostOfNode(cfg, src), HostOfNode(cfg, dst)},
         ipc_type        |-> IpcTypeOfEdge(cfg, i),
         idx_edge        |-> IF IpcTypeOfEdge(cfg, i) = "inter_host"
                             THEN <<defaultdict_get(
                                        map_idx_edge_at(cfg, i),
                                        _add_host_owner(cfg, i))>>
                             ELSE <<>>]

denormalize(cfg) ==
    [cfg EXCEPT !.edge = [i \in 1..Len(cfg.edge) |-> DenormalizedEdge(cfg, i)]]

(***************************************************************************)
(* xact.sys._run_locally: every node is moved to the one process            *)
(* mainprocess on localhost and every edge is made intra_process.           *)
(***************************************************************************)
_run_locally(cfg) ==
    LET moved == [process |-> [p \in (DOMAIN cfg.process) \cup {"mainprocess"}
                                   |-> "localhost"],
                  node    |-> [n \in DOMAIN cfg.node |->
                                   [cfg.node[n] EXCEPT !.process = "mainprocess"]],
                  edge    |-> cfg.edge]
        den   == denormalize(moved)
    IN  [den EXCEPT !.edge =
             [i \in 1..Len(den.edge) |->
                  [den.edge[i] EXCEPT !.ipc_type = "intra_process",
                                      !.list_id_process = {"mainprocess"}]]]

\* The config a scheduler is started with.
RuntimeCfg(sc) ==
    IF sc.is_distributed THEN denormalize(NormalizedCfg(sc))
    ELSE _run_locally(NormalizedCfg(sc))

\* The processes the model runs: the children the agent of localhost spawns,
\* or mainprocess.
LocalProcesses(sc) ==
    IF sc.is_distributed
    THEN {p \in DOMAIN RuntimeCfg(sc).process :
              RuntimeCfg(sc).process[p] = "localhost"}
    ELSE {"mainprocess"}

(***************************************************************************)
(* xact.util.topological_sort and the run order (xact.proc).               *)
(***************************************************************************)
\* The edges of the data flow graph of a process as pairs <<up, down>>:
\* map_forward[up] holds down and map_backward[down] holds up.
_local_acyclic_data_flow(iter_cfg_edge, id_process) ==
    {IF iter_cfg_edge[i].dirn = "feedforward"
     THEN <<iter_cfg_edge[i].id_node_src, iter_cfg_edge[i].id_node_dst>>
     ELSE <<iter_cfg_edge[i].id_node_dst, iter_cfg_edge[i].id_node_src>> :
         i \in {k \in 1..Len(iter_cfg_edge) :
                    iter_cfg_edge[k].ipc_type = "intra_process"
                        /\ id_process \in iter_cfg_edge[k].list_id_process}}

_nodes_at_count_zero(map_indegree) ==
    {key \in DOMAIN map_indegree : map_indegree[key] = 0}

\* Variant of _del_items that deletes nothing.  It is not the code: C40
\* fails under it, which shows that C40 depends on _del_items.
_del_items_kept(map_data, set_keys) == map_data

_del_items(map_data, set_keys) ==
    [key \in (DOMAIN map_data) \ set_keys |-> map_data[key]]

\* The loop of topological_sort: the ranks after the rank set_prev.
RECURSIVE NextRanks(_, _, _)
NextRanks(map_indegree, set_prev, graph) ==
    LET decremented ==
            [key \in DOMAIN map_indegree |->
                 map_indegree[key]
                     - Cardinality({up \in set_prev : <<up, key>> \in graph})]
        set_next == _nodes_at_count_zero(decremented)
    IN  IF set_next = {} THEN <<>>
        ELSE <<set_next>> \o NextRanks(_del_items(decremented, set_next),
                                       set_next, graph)

topological_sort(graph) ==
    LET set_node_out  == {e[1] : e \in graph}
        set_node_in   == {e[2] : e \in graph}
        map_indegree  == [key \in set_node_out \cup set_node_in |->
                              Cardinality({e \in graph : e[2] = key})]
        set_rank_zero == _nodes_at_count_zero(map_indegree)
    IN  <<set_rank_zero>>
            \o NextRanks(_del_items(map_indegree, set_rank_zero),
                         set_rank_zero, graph)

\* sorted(set_id): the ids of the set in lexicographic order.
sorted(set_id) == SelectSeq(NodeOrder, LAMBDA id : id \in set_id)

\* The ids of the set in the reverse of the lexicographic order.
RECURSIVE reversed(_)
reversed(seq) ==
    IF seq = <<>> THEN <<>> ELSE Append(reversed(Tail(seq)), Head(seq))

\* The tranches in their order, each tranche in reverse order of id.
RECURSIVE _specify_detailed_execution_order_reversed(_)
_specify_detailed_execution_order_reversed(list_tranches) ==
    IF list_tranches = <<>> THEN <<>>
    ELSE reversed(sorted(Head(list_tranches)))
             \o _specify_detailed_execution_order_reversed(Tail(list_tranches))

RECURSIVE _specify_detailed_execution_order(_)
_specify_detailed_execution_order(list_tranches) ==
    IF list_tranches = <<>> THEN <<>>
    ELSE sorted(Head(list_tranches))
             \o _specify_detailed_execution_order(Tail(list_tranches))

Range(seq) == {seq[i] : i \in 1..Len(seq)}

\* The unscheduled nodes without the test is_in_process.
_get_list_id_node_unscheduled_any_process(map_cfg_node, list_id_node, id_process) ==
    {id_node \in DOMAIN map_cfg_node : id_node \notin Range(list_id_node)}

_get_list_id_node_unscheduled(map_cfg_node, list_id_node, id_process) ==
    {id_node \in DOMAIN map_cfg_node :
         map_cfg_node[id_node].process = id_process
             /\ id_node \notin Range(list_id_node)}

_get_list_id_node_in_runorder(id_process, map_cfg_node, iter_cfg_edge) ==
    LET list_tranches == topological_sort(
                             _local_acyclic_data_flow(iter_cfg_edge, id_process))
        list_id_node  == _specify_detailed_execution_order(list_tranches)
    IN  list_id_node
            \o sorted(_get_list_id_node_unscheduled(
                          map_cfg_node, list_id_node, id_process))

(***************************************************************************)
(* The functions of the test nodes (xact/_meta/spec_xact.py) and of nodes  *)
(* whose functionality is arbitrary.  A buffer is <<>> (an empty dict) or  *)
(* <<v>> (its one field holds v).  Each operator gives the set of possible *)
(* results [out, state, coro, outputs] of one call: the outcome of the     *)
(* call, the node state, the position of the generator and the content of  *)
(* the output buffer after it.                                             *)
(***************************************************************************)
CallResult(out, state, pos, outputs) ==
    [out |-> out, state |-> state, coro |-> pos, outputs |-> outputs]

simple_counter(state) ==
    LET count == IF state = <<>> THEN 0 ELSE state[1] + 1
    IN  CallResult(IF count >= CountLimit THEN Return(Halt(0)) ELSE Return(None),
                   <<count>>, "none", <<count>>)

\* xact.test.util.send only emits the test message.
simple_messager(inputs, state, outputs) ==
    CallResult(IF inputs = <<>> THEN Raise(Error("KeyError"))
               ELSE IF inputs[1] >= CountLimit THEN Raise(Halt(0))
               ELSE Return(None),
               state, "none", outputs)

\* One g.send(inputs) of the generator of feedback_counter.
feedback_counter(inputs, state, pos, outputs) ==
    CASE pos = "yield" ->
             IF inputs = <<>>
             THEN CallResult(Raise(Error("KeyError")),
                             <<state[1] + 1>>, "done", outputs)
             ELSE IF inputs[1]
             THEN CallResult(Return(Halt(0)), <<state[1] + 1>>, "halted", outputs)
             ELSE CallResult(Return(None),
                             <<state[1] + 1>>, "yield", <<state[1] + 1>>)
      [] pos = "halted" -> CallResult(Return(None), state, "yield", state)
      [] pos = "done" -> CallResult(Raise(Error("StopIteration")),
                                    state, "done", outputs)
      [] OTHER -> CallResult(Raise(Error("KeyError")), state, pos, outputs)

\* Variant of feedback_decisioner that compares with > instead of >=.  It is
\* not the code: C10 fails under it, which shows that C10 depends on
\* feedback_decisioner.
feedback_decisioner_strict(inputs, state, pos, outputs) ==
    CASE pos = "yield" ->
             IF inputs = <<>>
             THEN CallResult(Raise(Error("KeyError")), state, "done", outputs)
             ELSE CallResult(Return(None), state, "yield",
                             IF inputs[1] > CountLimit THEN <<TRUE>> ELSE outputs)
      [] pos = "done" -> CallResult(Raise(Error("StopIteration")),
                                    state, "done", outputs)
      [] OTHER -> CallResult(Raise(Error("KeyError")), state, pos, outputs)

\* One g.send(inputs) of the generator of feedback_decisioner.
feedback_decisioner(inputs, state, pos, outputs) ==
    CASE pos = "yield" ->
             IF inputs = <<>>
             THEN CallResult(Raise(Error("KeyError")), state, "done", outputs)
             ELSE CallResult(Return(None), state, "yield",
                             IF inputs[1] >= CountLimit THEN <<TRUE>> ELSE outputs)
      [] pos = "done" -> CallResult(Raise(Error("StopIteration")),
                                    state, "done", outputs)
      [] OTHER -> CallResult(Raise(Error("KeyError")), state, pos, outputs)

\* Variant of coro_counter whose count starts at 0 instead of -1.  It is not
\* the code: C11 fails under it, which shows that C11 depends on
\* coro_counter.
coro_counter_from_zero(inputs, state, pos, outputs) ==
    CASE pos = "yield" ->
             LET count == state[1] + 2
             IN  CallResult(IF count >= CountLimit THEN Return(Halt(0))
                            ELSE Return(None),
                            <<count - 1>>, "yield", <<count>>)
      [] pos = "done" -> CallResult(Raise(Error("StopIteration")),
                                    state, "done", outputs)
      [] OTHER -> CallResult(Raise(Error("KeyError")), state, pos, outputs)

\* One g.send(inputs) of the generator of coro_counter; state holds its
\* local variable count.
coro_counter(inputs, state, pos, outputs) ==
    CASE pos = "yield" ->
             LET count == state[1] + 1
             IN  CallResult(IF count >= CountLimit THEN Return(Halt(0))
                            ELSE Return(None),
                            <<count>>, "yield", <<count>>)
      [] pos = "done" -> CallResult(Raise(Error("StopIteration")),
                                    state, "done", outputs)
      [] OTHER -> CallResult(Raise(Error("KeyError")), state, pos, outputs)

\* One g.send(inputs) of the generator of coro_messager; state is <<TRUE>>
\* once its local variable signal holds Halt(0).
coro_messager(inputs, state, pos, outputs) ==
    CASE pos = "yield" ->
             IF inputs = <<>>
             THEN CallResult(Raise(Error("KeyError")), state, "done", outputs)
             ELSE IF inputs[1] >= CountLimit \/ state = <<TRUE>>
             THEN CallResult(Return(Halt(0)), <<TRUE>>, "yield", outputs)
             ELSE CallResult(Return(None), state, "yield", outputs)
      [] pos = "done" -> CallResult(Raise(Error("StopIteration")),
                                    state, "done", outputs)
      [] OTHER -> CallResult(Raise(Error("KeyError")), state, pos, outputs)

\* What one send to a generator gives: the pair (yielded, signal) that the
\* generator yields and mapping, the content of the outputs mapping of the
\* node once the generator has run.  yielded is <<"own">> for the outputs
\* mapping of the node itself and <<"new", v>> for another object, whose
\* field holds v.
Sent(yielded, signal, mapping) ==
    [yielded |-> yielded, signal |-> signal, mapping |-> mapping]

\* Variant of _coro_step that copies the yielded object into the outputs
\* mapping of the node.  It is not the code: C39 fails under it, which shows
\* that C39 depends on _coro_step.
_coro_step_update_outputs(sent) ==
    [signal  |-> sent.signal,
     outputs |-> IF sent.yielded = <<"own">> THEN sent.mapping
                 ELSE <<sent.yielded[2]>>]

\* xact.node._coro_step: (outputs, signal) = coro.send(inputs) binds the
\* yielded object to a local name and returns signal; the outputs mapping of
\* the node is what the generator left in it.
_coro_step(sent) == [signal |-> sent.signal, outputs |-> sent.mapping]

\* What a generator supplied by the user may do between two yields: leave
\* the outputs mapping as it is or set its field in place, and yield the
\* mapping itself or a new object.
InPlaceUpdates == {<<"kept">>, <<"set", 1>>}

YieldedObjects == {<<"own">>, <<"new", 2>>}

\* One g.send(inputs) of such a generator; state holds what it did last:
\* the update in place and the object yielded.
arbitrary_coro(inputs, state, pos, outputs) ==
    {LET step == _coro_step(Sent(y, None, IF m = <<"kept">> THEN outputs
                                          ELSE <<m[2]>>))
     IN  CallResult(Return(step.signal), <<m, y>>, pos, step.outputs) :
         m \in InPlaceUpdates, y \in YieldedObjects}

\* fcn_step(inputs, state, outputs); for a coroutine node this is _coro_step.
FcnStep(functionality, inputs, state, pos, outputs) ==
    CASE functionality = "arbitrary" ->
             {CallResult(out, state, pos, outputs) : out \in ArbitraryOutcomes}
      [] functionality = "arbitrary_coro" ->
             arbitrary_coro(inputs, state, pos, outputs)
      [] functionality = "simple_counter" -> {simple_counter(state)}
      [] functionality = "simple_messager" ->
             {simple_messager(inputs, state, outputs)}
      [] functionality = "feedback_counter" ->
             {feedback_counter(inputs, state, pos, outputs)}
      [] functionality = "feedback_decisioner" ->
             {feedback_decisioner(inputs, state, pos, outputs)}
      [] functionality = "coro_counter" ->
             {coro_counter(inputs, state, pos, outputs)}
      [] functionality = "coro_messager" ->
             {coro_messager(inputs, state, pos, outputs)}

\* _coro_reset: a fresh generator is advanced to its first yield.
_coro_reset(coro, outputs) ==
    IF coro = "feedback_counter"
    THEN CallResult(Return(None), <<0>>, "yield", <<0>>)
    ELSE IF coro = "coro_counter"
    THEN CallResult(Return(None), <<-1>>, "yield", outputs)
    ELSE IF coro = "coro_messager"
    THEN CallResult(Return(None), <<>>, "yield", outputs)
    ELSE IF coro = "arbitrary_coro"
    THEN CallResult(Return(None), <<<<"set", 0>>, <<"own">>>>, "yield", <<0>>)
    ELSE CallResult(Return(None), <<>>, "yield", <<FALSE>>)

\* fcn_reset(runtime, config, inputs, state, outputs).  The test nodes in
\* step form are reset by _noop_reset.
FcnReset(functionality, state, pos, outputs) ==
    CASE functionality = "arbitrary" ->
             {CallResult(out, state, pos, outputs) : out \in ArbitraryOutcomes}
      [] functionality \in {"simple_counter", "simple_messager"} ->
             {CallResult(Return(None), state, pos, outputs)}
      [] OTHER -> {_coro_reset(functionality, outputs)}

(***************************************************************************)
(* Loading the functionality of a node (xact.node._load_functionality).    *)
(* functionality stands for the py_module of the node.                     *)
(***************************************************************************)
\* Whether importlib.import_module(spec_module) succeeds.
Importable(spec_module) == spec_module # "invalid.import.spec"

\* Variant of _ensure_imported without the test of module against None.  It
\* is not the code: C19 fails under it, which shows that C19 depends on
\* _ensure_imported.
_ensure_imported_unchecked(spec_module) == Return(None)

\* xact.node._ensure_imported: logger.catch swallows the exception of a
\* failed import and module stays None, which raises NonRecoverableError.
_ensure_imported(spec_module) ==
    IF Importable(spec_module) THEN Return(None)
    ELSE Raise(NonRecoverableError("Module not found."))

\* xact.proc._instantiate_nodes: a Node is constructed for each node of the
\* process, which loads its functionality; the first failure escapes.
_instantiate_nodes(id_process, map_cfg_node) ==
    LET failed == {n \in DOMAIN map_cfg_node :
                       /\ map_cfg_node[n].process = id_process
                       /\ _ensure_imported(map_cfg_node[n].functionality).kind
                              = "raise"}
    IN  IF failed = {} THEN Return(None)
        ELSE _ensure_imported(
                 map_cfg_node[CHOOSE n \in failed : TRUE].functionality)

(***************************************************************************)
(* State.                                                                  *)
(***************************************************************************)
VARIABLES
    scenario,     \* the configuration chosen and how it is launched
    cfg,          \* the denormalised config the schedulers are started with
    list_node,    \* per process: the node ids in run order
    pc,           \* per process: where its scheduler is
    idx,          \* per process: position in list_node of the running pass
    list_signal,  \* per process: the signals collected in the running pass
    idx_try,      \* per process: the attempt counter
    term,         \* per process: how the scheduler ended, <<>> while it runs
    exit_status,  \* per process: <<status>> of the OS process once it ended
    node_state,   \* per node: its state buffer
    coro,         \* per node: position of its generator
    src_mem,      \* per edge: content of the buffer at the producer
    dst_mem,      \* per edge: content of the consumer's input slot (queues)
    buffer,       \* per edge: object references put and not yet pickled
    pipe,         \* per edge: pickled payloads not yet read
    n_remote,     \* number of payloads the remote publisher has sent
    n_step,       \* per node: number of calls of Node.step
    n_retry,      \* per process: number of ResetAndRetry honoured
    reset_log,    \* per process: nodes reset in the running attempt, in order
    last_call,    \* per process: the last Node.reset or Node.step call
    wrote,        \* per node: output content after each of its steps
    seen,         \* per node: input content at its last step
    sys_pc,       \* the orchestrator: where xact.sys.start is
    host,         \* per host: its start-host command and what it has started
    endpoint,     \* per host and edge: the queue endpoint constructed, if any
    kill,         \* xact.host.stop: where it is, and the processes of the host
    applied,      \* the results of the successive calls of an operation
    heap,         \* the objects of the process and the prototype of a data type
    mpq           \* per queue under test: its semaphore and its last operation

\* The variables of the schedulers and those of the orchestrator and hosts.
procvars ==
    <<scenario, cfg, list_node, pc, idx, list_signal, idx_try, term,
      exit_status, node_state, coro, src_mem, dst_mem, buffer, pipe, n_remote,
      n_step, n_retry, reset_log, last_call, wrote, seen>>

sysvars == <<sys_pc, host, endpoint, kill, applied, heap, mpq>>

vars == <<procvars, sysvars>>

HostIds == {"h1", "h2", "localhost"}

\* A host that has been given no command.
HostIdle ==
    [cmd |-> "none", status |-> <<>>, map_queues |-> <<>>, procs |-> {}]

\* No orchestrator operation and no host command is under way.
\* No object has been made.
NoHeap == [objects |-> <<>>, prototype |-> 0]

SysIdle ==
    /\ sys_pc = [pc |-> "idle", i |-> 1, ret |-> <<>>]
    /\ host = [h \in HostIds |-> HostIdle]
    /\ endpoint = [h \in HostIds |-> <<>>]
    /\ kill = [pc |-> "idle", alive |-> {}, waited |-> {}]
    /\ applied = <<>>
    /\ heap = NoHeap
    /\ mpq = <<>>

EdgeIds == {1, 2}

Upd(f, k, v) == [f EXCEPT ![k] = v]

NoCall ==
    [phase |-> "none", node |-> "", called |-> FALSE, out |-> Return(None),
     result |-> Return(None), transport |-> "ok"]

Init ==
    /\ scenario \in Scenarios
    /\ cfg = RuntimeCfg(scenario)
    /\ list_node = [p \in ProcessIds |-> <<>>]
    /\ pc = [p \in ProcessIds |->
                 IF p \in LocalProcesses(scenario) THEN "configure"
                 ELSE "absent"]
    /\ idx = [p \in ProcessIds |-> 1]
    /\ list_signal = [p \in ProcessIds |-> <<>>]
    /\ idx_try = [p \in ProcessIds |-> 0]
    /\ term = [p \in ProcessIds |-> <<>>]
    /\ exit_status = [p \in ProcessIds |-> <<>>]
    /\ node_state = [n \in NodeIds |-> <<>>]
    /\ coro = [n \in NodeIds |-> "none"]
    /\ src_mem = [e \in EdgeIds |-> <<>>]
    /\ dst_mem = [e \in EdgeIds |-> <<>>]
    /\ buffer = [e \in EdgeIds |-> <<>>]
    /\ pipe = [e \in EdgeIds |-> <<>>]
    /\ n_remote = 0
    /\ n_step = [n \in NodeIds |-> 0]
    /\ n_retry = [p \in ProcessIds |-> 0]
    /\ reset_log = [p \in ProcessIds |-> <<>>]
    /\ last_call = [p \in ProcessIds |-> NoCall]
    /\ wrote = [n \in NodeIds |-> <<>>]
    /\ seen = [n \in NodeIds |-> <<>>]
    /\ SysIdle

(***************************************************************************)
(* Wiring of the edges (xact.proc._configure_edges) and the queue          *)
(* implementation behind each edge (xact.host.connect_queues).             *)
(***************************************************************************)
Edges == DOMAIN cfg.edge

InEdges(n) == {e \in Edges : cfg.edge[e].id_node_dst = n}

OutEdges(n) == {e \in Edges : cfg.edge[e].id_node_src = n}

\* node.input_queues and node.output_queues: edges that are not intra_process.
InputQueues(n) == {e \in InEdges(n) : cfg.edge[e].ipc_type # "intra_process"}

OutputQueues(n) == {e \in OutEdges(n) : cfg.edge[e].ipc_type # "intra_process"}

\* The module whose Queue class serves the edge on localhost in the queue
\* map that xact.proc.start is given: the class queue_type that
\* _group_edges_by_class computes, looked up in cfg['queue'].  For an
\* inter-host edge such a map is built by the caller of xact.proc.start:
\* xact.host.connect_queues raises for it (see connect_queues).
QueueImpl(e) ==
    IF cfg.edge[e].ipc_type = "inter_process" THEN "xact.queue.multiprocessing"
    ELSE IF cfg.edge[e].id_host_owner = "localhost" THEN "xact.queue.zmq_server"
    ELSE "xact.queue.zmq_client"

\* multiprocessing.Queue() is built with no maxsize: put fails with Full
\* only when this many items are in flight (the limit of its semaphore).
QueueMaxSize == 2147483647

\* What a node function finds at inputs['input'] and outputs['output']: an
\* intra_process edge aliases one buffer at both ends.
Inputs(n, smem, dmem) ==
    IF InEdges(n) = {} THEN <<>>
    ELSE LET e == CHOOSE e \in InEdges(n) : TRUE
         IN  IF cfg.edge[e].ipc_type = "intra_process" THEN smem[e] ELSE dmem[e]

Outputs(n, smem) ==
    IF OutEdges(n) = {} THEN <<>>
    ELSE smem[CHOOSE e \in OutEdges(n) : TRUE]

SetOutputs(n, smem, content) ==
    [e \in EdgeIds |-> IF e \in OutEdges(n) THEN content ELSE smem[e]]

(***************************************************************************)
(* Queue operations.                                                       *)
(***************************************************************************)
\* xact.queue.multiprocessing.Queue.non_blocking_write: put(msg, block =
\* False) appends the reference msg to the buffer of the queue; the feeder
\* thread of the queue pickles it later (action Feed).
\* The semaphore of a multiprocessing.Queue counts its free slots; put takes
\* one with _sem.acquire(block), which fails at once when none is left.  The
\* semaphore without this test:
_sem_acquire_always(sem) == TRUE

_sem_acquire(sem) == sem > 0

mp_non_blocking_write(e, buf, pip) ==
    IF ~_sem_acquire(QueueMaxSize - Len(buf[e]) - Len(pip[e]))
    THEN [raised |-> Raise(Error("Full")), buffer |-> buf]
    ELSE [raised |-> Return(None), buffer |-> Upd(buf, e, Append(buf[e], e))]

\* xact.queue.zmq_server.Queue.non_blocking_write(self, msg) sends the
\* undefined name item: every call raises NameError.
zmq_non_blocking_write(e, buf, pip) ==
    [raised |-> Raise(Error("NameError")), buffer |-> buf]

non_blocking_write(e, buf, pip) ==
    IF QueueImpl(e) = "xact.queue.multiprocessing"
    THEN mp_non_blocking_write(e, buf, pip)
    ELSE zmq_non_blocking_write(e, buf, pip)

\* _enqueue_outputs: one write per output queue; the first failure escapes.
RECURSIVE _enqueue_outputs(_, _, _)
_enqueue_outputs(queues, buf, pip) ==
    IF queues = {} THEN [raised |-> Return(None), buffer |-> buf]
    ELSE LET e == CHOOSE e \in queues : TRUE
             w == non_blocking_write(e, buf, pip)
         IN  IF w.raised.kind = "raise" THEN w
             ELSE _enqueue_outputs(queues \ {e}, w.buffer, pip)

\* Variant of ReadOutcomes in which get is given a timeout, so that a read
\* of the local queue may raise Empty.  It is not the code: C37 fails under
\* it, which shows that C37 depends on the wait of blocking_read having no
\* end other than an item.
ReadOutcomes_with_timeout(n) == BOOLEAN

\* Whether blocking_read on the edge may fail: recv_pyobj of a socket may
\* raise ZMQError; get(block = True) of the local queue waits.
ReadOutcomes(n) ==
    IF \E e \in InputQueues(n) : QueueImpl(e) # "xact.queue.multiprocessing"
    THEN BOOLEAN ELSE {TRUE}

\* _dequeue_inputs: one blocking_read per input queue; the item read is
\* bound to the input slot.
_dequeue_inputs(n, read_ok, pip, dmem) ==
    IF ~read_ok
    THEN [raised |-> Raise(Error("ZMQError")), pipe |-> pip, dst_mem |-> dmem]
    ELSE [raised  |-> Return(None),
          pipe    |-> [e \in EdgeIds |->
                           IF e \in InputQueues(n) THEN Tail(pip[e]) ELSE pip[e]],
          dst_mem |-> [e \in EdgeIds |->
                           IF e \in InputQueues(n) THEN Head(pip[e]) ELSE dmem[e]]]

(***************************************************************************)
(* Node.step: dequeue the inputs, call the step function, enqueue the      *)
(* outputs, return the signal.  deq is the result of _dequeue_inputs and r *)
(* the result of fcn_step.  None of the three calls is guarded, so what    *)
(* one raises escapes Node.step.                                           *)
(***************************************************************************)
Node_step(n, deq, r, buf) ==
    LET called == _call_step("fcn", r.out)
        smem   == SetOutputs(n, src_mem, r.outputs)
        enq    == _enqueue_outputs(OutputQueues(n), buf, deq.pipe)
    IN  IF deq.raised.kind = "raise"
        THEN [result |-> deq.raised, transport |-> "read_failed",
              called |-> FALSE, wrote |-> FALSE,
              pipe |-> pipe, dst_mem |-> dst_mem, src_mem |-> src_mem,
              buffer |-> buf, state |-> node_state[n], coro |-> coro[n]]
        ELSE IF called.kind = "raise"
        THEN [result |-> called, transport |-> "ok",
              called |-> TRUE, wrote |-> FALSE,
              pipe |-> deq.pipe, dst_mem |-> deq.dst_mem, src_mem |-> smem,
              buffer |-> buf, state |-> r.state, coro |-> r.coro]
        ELSE IF enq.raised.kind = "raise"
        THEN [result |-> enq.raised, transport |-> "write_failed",
              called |-> TRUE, wrote |-> FALSE,
              pipe |-> deq.pipe, dst_mem |-> deq.dst_mem, src_mem |-> smem,
              buffer |-> enq.buffer, state |-> r.state, coro |-> r.coro]
        ELSE [result |-> called, transport |-> "ok",
              called |-> TRUE, wrote |-> TRUE,
              pipe |-> deq.pipe, dst_mem |-> deq.dst_mem, src_mem |-> smem,
              buffer |-> enq.buffer, state |-> r.state, coro |-> r.coro]

(***************************************************************************)
(* How a scheduler ends and what the OS process exits with.                *)
(***************************************************************************)
Termination(kind, val) == [kind |-> kind, val |-> val]

\* xact.proc.start returns halt.return_code on Halt; anything else raised
\* by the main loop leaves start as an exception.  In local mode the
\* command line exits with what xact.sys.start returns; a child process
\* started by the host agent runs start as the target of
\* multiprocessing.Process, which drops the value the target returns.
ExitStatus(is_distributed, termination) ==
    IF termination.kind = "Halt"
    THEN IF is_distributed THEN 0 ELSE termination.val.return_code
    ELSE 1

\* Variant of NextTry that leaves the counter as it is.  It is not the code:
\* C2 fails under it, which shows that C2 depends on NextTry.
NextTry_unchanged(i) == i

\* The attempt counter after a ResetAndRetry (_run_main_loop_with_retry).
NextTry(i) == i + 1

(***************************************************************************)
(* Actions of a scheduler (xact.proc).                                     *)
(***************************************************************************)
\* list_signal as the running pass has it: reset() and step() clear it
\* before their first node.
PassSignals(p) == IF idx[p] = 1 THEN <<>> ELSE list_signal[p]

Collected(list, signal) == IF signal # None THEN Append(list, signal) ELSE list

\* One iteration of the loop of xact.proc.reset: Node.reset of the next node.
ResetNode(p) ==
    /\ pc[p] = "reset"
    /\ idx[p] <= Len(list_node[p])
    /\ LET n == list_node[p][idx[p]]
       IN  \E r \in FcnReset(cfg.node[n].functionality, node_state[n], coro[n],
                             Outputs(n, src_mem)) :
               LET res == Node_reset("fcn", r.out)
               IN  /\ node_state' = Upd(node_state, n, r.state)
                   /\ coro' = Upd(coro, n, r.coro)
                   /\ src_mem' = SetOutputs(n, src_mem, r.outputs)
                   /\ reset_log' = Upd(reset_log, p, Append(reset_log[p], n))
                   /\ last_call' = Upd(last_call, p,
                          [phase |-> "reset", node |-> n, called |-> TRUE,
                           out |-> r.out, result |-> res, transport |-> "ok"])
                   /\ IF res.kind = "raise"
                      THEN /\ term' = Upd(term, p,
                                  Termination("exception", res.val))
                           /\ exit_status' = Upd(exit_status, p,
                                  <<ExitStatus(scenario.is_distributed, term'[p])>>)
                           /\ pc' = Upd(pc, p, "exited")
                           /\ list_signal' = Upd(list_signal, p, PassSignals(p))
                           /\ idx' = idx
                      ELSE /\ list_signal' = Upd(list_signal, p,
                                  Collected(PassSignals(p), res.val))
                           /\ idx' = Upd(idx, p, idx[p] + 1)
                           /\ pc' = Upd(pc, p,
                                  IF idx[p] = Len(list_node[p])
                                  THEN "reset_handle" ELSE "reset")
                           /\ UNCHANGED <<term, exit_status>>
    /\ UNCHANGED sysvars
    /\ UNCHANGED <<scenario, cfg, list_node, idx_try, dst_mem, buffer, pipe,
                   n_remote, n_step, n_retry, wrote, seen>>

\* The loop of xact.proc.step left as soon as a Halt or a
\* NonRecoverableError has been collected.
_step_loop_break_on_signal(idx_node, list_id_node, signals) ==
    IF idx_node = Len(list_id_node)
           \/ \E i \in 1..Len(signals) :
                  signals[i].type \in {"Halt", "NonRecoverableError"}
    THEN "step_handle" ELSE "step"

\* The loop for node in list_node of xact.proc.step after the node at
\* idx_node: it goes on to the next node whatever has been collected, and
\* _handle_signals is called after the last node.
_step_loop(idx_node, list_id_node, signals) ==
    IF idx_node = Len(list_id_node) THEN "step_handle" ELSE "step"

\* One iteration of the loop of xact.proc.step: Node.step of the next node.
\* It waits while an input queue of the node is empty.
StepNode(p) ==
    /\ pc[p] = "step"
    /\ idx[p] <= Len(list_node[p])
    /\ LET n == list_node[p][idx[p]]
           f == cfg.node[n].functionality
       IN  /\ f \in {"arbitrary", "arbitrary_coro"} => n_step[n] < MaxStep
           /\ \A e \in OutputQueues(n) :
                  Len(buffer[e]) + Len(pipe[e]) < MaxInFlight
           /\ \E read_ok \in ReadOutcomes(n) :
                  /\ read_ok => \A e \in InputQueues(n) : pipe[e] # <<>>
                  /\ LET deq == _dequeue_inputs(n, read_ok, pipe, dst_mem)
                     IN  \E r \in FcnStep(f, Inputs(n, src_mem, deq.dst_mem),
                                          node_state[n], coro[n],
                                          Outputs(n, src_mem)) :
                             LET s == Node_step(n, deq, r, buffer)
                             IN  /\ node_state' = Upd(node_state, n, s.state)
                                 /\ coro' = Upd(coro, n, s.coro)
                                 /\ src_mem' = s.src_mem
                                 /\ dst_mem' = s.dst_mem
                                 /\ pipe' = s.pipe
                                 /\ buffer' = s.buffer
                                 /\ n_step' = Upd(n_step, n, n_step[n] + 1)
                                 /\ last_call' = Upd(last_call, p,
                                        [phase |-> "step", node |-> n,
                                         called |-> s.called,
                                         out |-> IF s.called THEN r.out
                                                 ELSE Return(None),
                                         result |-> s.result,
                                         transport |-> s.transport])
                                 /\ seen' = IF s.called /\ InEdges(n) # {}
                                            THEN Upd(seen, n,
                                                Inputs(n, src_mem, s.dst_mem))
                                            ELSE seen
                                 /\ wrote' = IF s.wrote /\ OutEdges(n) # {}
                                             THEN Upd(wrote, n, Append(wrote[n],
                                                 Outputs(n, s.src_mem)))
                                             ELSE wrote
                                 /\ IF s.result.kind = "raise"
                                    THEN /\ term' = Upd(term, p,
                                                Termination("exception",
                                                            s.result.val))
                                         /\ exit_status' = Upd(exit_status, p,
                                                <<ExitStatus(
                                                    scenario.is_distributed,
                                                    term'[p])>>)
                                         /\ pc' = Upd(pc, p, "exited")
                                         /\ list_signal' = Upd(list_signal, p,
                                                PassSignals(p))
                                         /\ idx' = idx
                                    ELSE /\ list_signal' = Upd(list_signal, p,
                                                Collected(PassSignals(p),
                                                          s.result.val))
                                         /\ idx' = Upd(idx, p, idx[p] + 1)
                                         /\ pc' = Upd(pc, p,
                                                _step_loop(idx[p], list_node[p],
                                                    Collected(PassSignals(p),
                                                              s.result.val)))
                                         /\ UNCHANGED <<term, exit_status>>
    /\ UNCHANGED sysvars
    /\ UNCHANGED <<scenario, cfg, list_node, idx_try, n_remote, n_retry,
                   reset_log>>

\* _handle_signals at the end of a pass and what its callers do with the
\* signal it raises: _run_main_loop_with_retry catches ResetAndRetry,
\* counts the attempt and resets; start catches Halt; NonRecoverableError
\* leaves start.  With nothing raised the next step pass begins.
HandleSignals(p) ==
    /\ pc[p] \in {"reset_handle", "step_handle"}
    /\ LET raised == _handle_signals(list_signal[p])
       IN  /\ raised.type = "ResetAndRetry" => idx_try[p] < MaxTry
           /\ idx' = Upd(idx, p, 1)
           /\ idx_try' = IF raised.type = "ResetAndRetry"
                         THEN Upd(idx_try, p, NextTry(idx_try[p])) ELSE idx_try
           /\ n_retry' = IF raised.type = "ResetAndRetry"
                         THEN Upd(n_retry, p, n_retry[p] + 1) ELSE n_retry
           /\ reset_log' = IF raised.type = "ResetAndRetry"
                           THEN Upd(reset_log, p, <<>>) ELSE reset_log
           /\ pc' = Upd(pc, p,
                  CASE raised = None -> "step"
                    [] raised.type = "ResetAndRetry" -> "reset"
                    [] OTHER -> "exited")
           /\ term' = IF raised.type \in {"Halt", "NonRecoverableError"}
                      THEN Upd(term, p, Termination(raised.type, raised))
                      ELSE term
           /\ exit_status' = IF raised.type \in {"Halt", "NonRecoverableError"}
                             THEN Upd(exit_status, p,
                                      <<ExitStatus(scenario.is_distributed,
                                                   term'[p])>>)
                             ELSE exit_status
    /\ UNCHANGED sysvars
    /\ UNCHANGED <<scenario, cfg, list_node, list_signal, node_state, coro,
                   src_mem, dst_mem, buffer, pipe, n_remote, n_step, last_call,
                   wrote, seen>>

(***************************************************************************)
(* Actions of the transports.                                              *)
(***************************************************************************)
\* The feeder thread of a multiprocessing.Queue: it takes the oldest
\* reference from the buffer, pickles the object as it finds it and writes
\* the payload to the pipe.
FeedPayload(e) == src_mem[Head(buffer[e])]

Feed(e) ==
    /\ buffer[e] # <<>>
    /\ pipe' = Upd(pipe, e, Append(pipe[e], FeedPayload(e)))
    /\ buffer' = Upd(buffer, e, Tail(buffer[e]))
    /\ UNCHANGED sysvars
    /\ UNCHANGED <<scenario, cfg, list_node, pc, idx, list_signal, idx_try,
                   term, exit_status, node_state, coro, src_mem, dst_mem,
                   n_remote, n_step, n_retry, reset_log, last_call, wrote, seen>>

\* The publisher at the remote end of an inter-host edge sends a payload.
RemotePublish(e) ==
    /\ e \in Edges
    /\ cfg.edge[e].ipc_type = "inter_host"
    /\ cfg.edge[e].id_host_dst = "localhost"
    /\ n_remote < MaxRemote
    /\ n_remote' = n_remote + 1
    /\ pipe' = Upd(pipe, e, Append(pipe[e], <<n_remote>>))
    /\ UNCHANGED sysvars
    /\ UNCHANGED <<scenario, cfg, list_node, pc, idx, list_signal, idx_try,
                   term, exit_status, node_state, coro, src_mem, dst_mem,
                   buffer, n_step, n_retry, reset_log, last_call, wrote, seen>>

\* xact.proc._configure, called by start before the main loop: the nodes of
\* the process are instantiated and listed in run order.  An exception of
\* _instantiate_nodes leaves start: the main loop is not entered.
Configure(p) ==
    /\ pc[p] = "configure"
    /\ LET r == _instantiate_nodes(p, cfg.node)
       IN  IF r.kind = "raise"
           THEN /\ term' = Upd(term, p, Termination("exception", r.val))
                /\ exit_status' = Upd(exit_status, p,
                       <<ExitStatus(scenario.is_distributed, term'[p])>>)
                /\ pc' = Upd(pc, p, "exited")
                /\ UNCHANGED list_node
           ELSE /\ list_node' = Upd(list_node, p,
                       _get_list_id_node_in_runorder(p, cfg.node, cfg.edge))
                /\ pc' = Upd(pc, p, "reset")
                /\ UNCHANGED <<term, exit_status>>
    /\ UNCHANGED sysvars
    /\ UNCHANGED <<scenario, cfg, idx, list_signal, idx_try, node_state, coro,
                   src_mem, dst_mem, buffer, pipe, n_remote, n_step, n_retry,
                   reset_log, last_call, wrote, seen>>

Next ==
    \/ \E p \in ProcessIds : Configure(p)
    \/ \E p \in ProcessIds : ResetNode(p)
    \/ \E p \in ProcessIds : StepNode(p)
    \/ \E p \in ProcessIds : HandleSignals(p)
    \/ \E e \in EdgeIds : Feed(e)
    \/ \E e \in EdgeIds : RemotePublish(e)

Spec == Init /\ [][Next]_vars

\* Every OS process and every feeder thread that can run is scheduled.
Fairness ==
    /\ \A p \in ProcessIds :
           WF_vars(Configure(p) \/ ResetNode(p) \/ StepNode(p)
                       \/ HandleSignals(p))
    /\ \A e \in EdgeIds : WF_vars(Feed(e))

FairSpec == Spec /\ Fairness

(***************************************************************************)
(* Properties.                                                             *)
(***************************************************************************)

\* C1: signal priority.  When a step pass has stepped every local node and
\* _handle_signals runs on the signals the pass collected: if one of them
\* is a NonRecoverableError the scheduler ends with a NonRecoverableError of
\* the pass; otherwise, if one is a Halt, it ends with a Halt of the pass;
\* otherwise, if one is a ResetAndRetry, it goes back to reset and nothing
\* ends; otherwise nothing is raised and the next pass starts at its first
\* node.  One signal at most is honoured.
C1_SignalPriority ==
    [][\A p \in ProcessIds :
           (pc[p] = "step_handle" /\ pc'[p] # "step_handle") =>
               LET emitted(name) == \E i \in 1..Len(list_signal[p]) :
                                        list_signal[p][i].type = name
               IN  IF emitted("NonRecoverableError")
                   THEN /\ pc'[p] = "exited"
                        /\ term'[p].kind = "NonRecoverableError"
                        /\ term'[p].val.type = "NonRecoverableError"
                        /\ term'[p].val \in Range(list_signal[p])
                   ELSE IF emitted("Halt")
                   THEN /\ pc'[p] = "exited"
                        /\ term'[p].kind = "Halt"
                        /\ term'[p].val.type = "Halt"
                        /\ term'[p].val \in Range(list_signal[p])
                   ELSE IF emitted("ResetAndRetry")
                   THEN /\ pc'[p] = "reset"
                        /\ idx'[p] = 1
                        /\ term'[p] = <<>>
                   ELSE /\ pc'[p] = "step"
                        /\ idx'[p] = 1
                        /\ term'[p] = <<>>]_vars

\* A pass in which a Halt, a ResetAndRetry and a NonRecoverableError were
\* emitted, in that order, has ended the scheduler with the
\* NonRecoverableError.
C1_Witness ==
    \E p \in ProcessIds :
        /\ pc[p] = "exited"
        /\ term[p].kind = "NonRecoverableError"
        /\ Len(list_signal[p]) = 3
        /\ list_signal[p][1].type = "Halt"
        /\ list_signal[p][2].type = "ResetAndRetry"
        /\ list_signal[p][3].type = "NonRecoverableError"

C3_HaltExitsWithCode ==
    \A p \in ProcessIds :
        (pc[p] = "exited" /\ term[p].kind = "Halt") =>
            exit_status[p] = <<term[p].val.return_code>>

\* C4: a signal that the reset function of a node returns or raises, or the
\* NonRecoverableError made from another exception it raises, is collected
\* by the reset pass; stepping begins only after a reset pass without a
\* Halt, NonRecoverableError or ResetAndRetry.
C4_ResetSignalsReachScheduler ==
    \A p \in ProcessIds :
        LET out == last_call[p].out
            expected ==
                IF out.kind = "return" \/ IsControlSignal(out.val)
                THEN out.val
                ELSE NonRecoverableError(out.val.cause)
        IN  (last_call[p].phase = "reset" /\ pc[p] \in {"reset_handle", "step"}
                 /\ (out.kind = "raise" => IsException(out.val))
                 /\ expected # None) =>
                /\ pc[p] = "reset_handle"
                /\ list_signal[p] # <<>>
                /\ list_signal[p][Len(list_signal[p])] = expected

\* C5: for a step whose transport did not fail, Node.step returns the value
\* the step function returned; it returns the signal S when the step
\* function raised the ControlSignal S; it returns a NonRecoverableError
\* carrying the cause when the step function raised another exception
\* derived from Exception; an exception derived from BaseException only
\* leaves Node.step and ends the scheduler.
C5_CallStepAdapter ==
    \A p \in ProcessIds :
        LET c == last_call[p]
        IN  (c.phase = "step" /\ c.called /\ c.transport = "ok") =>
                IF c.out.kind = "return" THEN c.result = Return(c.out.val)
                ELSE IF IsControlSignal(c.out.val)
                THEN c.result = Return(c.out.val)
                ELSE IF c.out.val.type = "Exception"
                THEN c.result = Return(NonRecoverableError(c.out.val.cause))
                ELSE /\ c.result = Raise(c.out.val)
                     /\ pc[p] = "exited"
                     /\ term[p].kind = "exception"

\* A step function raised ValueError and Node.step returned the
\* NonRecoverableError made from it.
C5_Witness ==
    \E p \in ProcessIds :
        /\ last_call[p].phase = "step"
        /\ last_call[p].called
        /\ last_call[p].out = Raise(Error("ValueError"))
        /\ last_call[p].result = Return(NonRecoverableError("ValueError"))

\* C5 as stated: nothing the step function raises leaves Node.step.
C5_NoExceptionPropagates ==
    \A p \in ProcessIds :
        (last_call[p].phase = "step" /\ last_call[p].called
             /\ last_call[p].transport = "ok") =>
            last_call[p].result.kind = "return"

\* C6: when a read of an input queue or a write to an output queue fails
\* during a step, Node.step returns a NonRecoverableError.
C6_TransportFailureIsSignal ==
    \A p \in ProcessIds :
        (last_call[p].phase = "step" /\ last_call[p].transport # "ok") =>
            /\ last_call[p].result.kind = "return"
            /\ last_call[p].result.val.type = "NonRecoverableError"

\* C7: on an inter-process edge the consumer has read no more items than the
\* producer has written, and the item of its k-th read is the content the
\* output buffer of the producer had at the k-th write.
C7_StrictFifoCopy ==
    \A e \in Edges :
        cfg.edge[e].ipc_type = "inter_process" =>
            LET src == cfg.edge[e].id_node_src
                dst == cfg.edge[e].id_node_dst
            IN  /\ n_step[dst] <= Len(wrote[src])
                /\ n_step[dst] >= 1 => dst_mem[e] = wrote[src][n_step[dst]]

\* C8: in the dual-process counter, b observes at its k-th step the k-th
\* value a wrote (k - 1), and its process ends with Halt(0) on reading the
\* final value at its step CountLimit + 1.
C8_DualProcessCounter ==
    (scenario.name = "open_loop" /\ scenario.is_distributed
         /\ ~scenario.same_process) =>
        /\ n_step["b"] >= 1 => seen["b"] = <<n_step["b"] - 1>>
        /\ pc["p2"] = "exited" =>
               /\ term["p2"].kind = "Halt"
               /\ term["p2"].val.return_code = 0
               /\ n_step["b"] = CountLimit + 1
        /\ pc["p1"] = "exited" =>
               /\ term["p1"].kind = "Halt"
               /\ term["p1"].val.return_code = 0

\* C9: the local processes are never all waiting in blocking_read on an
\* empty queue whose producer is another local process.
C9_NoMutualWait ==
    LET local == {p \in ProcessIds : pc[p] # "absent"}
        waiting(p) ==
            /\ pc[p] = "step"
            /\ idx[p] <= Len(list_node[p])
            /\ \E e \in InputQueues(list_node[p][idx[p]]) :
                   /\ pipe[e] = <<>>
                   /\ buffer[e] = <<>>
                   /\ cfg.edge[e].id_host_src = "localhost"
    IN  ~(\A p \in local : waiting(p))

GraphNodes == {"a", "b", "c"}

EdgeChoices ==
    {EdgeCfg(src, src, dst, dirn) :
         src \in GraphNodes, dst \in GraphNodes,
         dirn \in {"feedforward", "feedback"}}
        \ {EdgeCfg(n, n, n, dirn) :
               n \in GraphNodes, dirn \in {"feedforward", "feedback"}}

EdgeLists == UNION {[1..n -> EdgeChoices] : n \in 0..MaxEdge}

GraphCfg(list_edge, proc_c) ==
    [process |-> [p \in {"p1", "p2"} |-> "localhost"],
     node    |-> [n \in GraphNodes |->
                      NodeCfg(IF n = "c" THEN proc_c ELSE "p1", "arbitrary")],
     edge    |-> list_edge]

ConfigureInit ==
    /\ scenario \in {Scenario("graph", same, TRUE) : same \in BOOLEAN}
    /\ cfg \in {denormalize(GraphCfg(list_edge,
                    IF scenario.same_process THEN "p1" ELSE "p2")) :
                    list_edge \in EdgeLists}
    /\ list_node = [p \in ProcessIds |-> <<>>]
    /\ pc = [p \in ProcessIds |->
                 IF p \in {"p1", "p2"} THEN "configure" ELSE "absent"]
    /\ idx = [p \in ProcessIds |-> 1]
    /\ list_signal = [p \in ProcessIds |-> <<>>]
    /\ idx_try = [p \in ProcessIds |-> 0]
    /\ term = [p \in ProcessIds |-> <<>>]
    /\ exit_status = [p \in ProcessIds |-> <<>>]
    /\ node_state = [n \in NodeIds |-> <<>>]
    /\ coro = [n \in NodeIds |-> "none"]
    /\ src_mem = [e \in EdgeIds |-> <<>>]
    /\ dst_mem = [e \in EdgeIds |-> <<>>]
    /\ buffer = [e \in EdgeIds |-> <<>>]
    /\ pipe = [e \in EdgeIds |-> <<>>]
    /\ n_remote = 0
    /\ n_step = [n \in NodeIds |-> 0]
    /\ n_retry = [p \in ProcessIds |-> 0]
    /\ reset_log = [p \in ProcessIds |-> <<>>]
    /\ last_call = [p \in ProcessIds |-> NoCall]
    /\ wrote = [n \in NodeIds |-> <<>>]
    /\ seen = [n \in NodeIds |-> <<>>]
    /\ SysIdle

ConfigureNext == \E p \in ProcessIds : Configure(p)

ConfigureSpec == ConfigureInit /\ [][ConfigureNext]_vars

\* Position of a node in a run order (0 when it is not in it).
Position(list_id_node, id_node) ==
    IF id_node \in Range(list_id_node)
    THEN CHOOSE i \in 1..Len(list_id_node) : list_id_node[i] = id_node
    ELSE 0

\* The feedforward edges of the config with both ends in process p.
FeedforwardIn(p) ==
    {<<cfg.edge[i].id_node_src, cfg.edge[i].id_node_dst>> :
         i \in {k \in 1..Len(cfg.edge) :
                    /\ cfg.edge[k].dirn = "feedforward"
                    /\ cfg.node[cfg.edge[k].id_node_src].process = p
                    /\ cfg.node[cfg.edge[k].id_node_dst].process = p}}

\* Relational composition of two sets of pairs.
Compose(r, g) ==
    {<<x[1][1], x[2][2]>> : x \in {y \in r \X g : y[1][2] = y[2][1]}}

\* Whether a set of pairs over GraphNodes has no cycle: no node reaches
\* itself (three nodes: in at most three steps).
Acyclic(graph) ==
    LET r2 == Compose(graph, graph)
        r3 == Compose(r2, graph)
    IN  \A n \in GraphNodes : <<n, n>> \notin (graph \cup r2 \cup r3)

\* The edges of a config that are not feedback edges.
WithoutFeedback(iter_cfg_edge) ==
    SelectSeq(iter_cfg_edge, LAMBDA e : e.dirn # "feedback")

\* C12: when the feedforward edges inside a process form a DAG, the run
\* order of the process holds both ends of each of them, the source before
\* the destination.
C12_RunOrderIsLinearExtension ==
    \A p \in {"p1", "p2"} :
        (scenario.name = "graph" /\ pc[p] = "reset"
             /\ Acyclic(FeedforwardIn(p))) =>
            \A e \in FeedforwardIn(p) :
                /\ Position(list_node[p], e[1]) >= 1
                /\ Position(list_node[p], e[1]) < Position(list_node[p], e[2])

\* C13: the run order of a process is the run order computed from the
\* config without its feedback edges.
C13_FeedbackEdgesExcluded ==
    \A p \in {"p1", "p2"} :
        (scenario.name = "graph" /\ pc[p] = "reset") =>
            list_node[p] = _get_list_id_node_in_runorder(
                               p, cfg.node, WithoutFeedback(cfg.edge))

(***************************************************************************)
(* The orchestrator (xact.sys) and the host agents (xact.host) over the    *)
(* systems of three nodes a, b, c, one process each, placed on the hosts   *)
(* h1, h2 and localhost, with at most MaxEdge edges.                       *)
(***************************************************************************)
\* The host ids in the order sorted() gives them.
HostOrder == <<"h1", "h2", "localhost">>

\* cfg['host']: hostname and port range of each host.  port_range is the pair
\* that _port_number gets from splitting the string 'lo-hi'.  Either every
\* host has the same range, or each host has its own.
HostTable(differ) ==
    [h \in HostIds |->
         [hostname   |-> CASE h = "h1" -> "alpha.example"
                           [] h = "h2" -> "beta.example"
                           [] OTHER    -> "127.0.0.1",
          port_range |-> IF ~differ THEN <<5000, 5001>>
                         ELSE CASE h = "h1" -> <<5000, 5001>>
                                [] h = "h2" -> <<6000, 6000>>
                                [] OTHER    -> <<7000, 7001>>]]

\* cfg['queue']: the module that implements each class of queue.
QueueTable ==
    [k \in {"inter_process", "inter_host_server", "inter_host_client"} |->
         CASE k = "inter_process"     -> "xact.queue.multiprocessing"
           [] k = "inter_host_server" -> "xact.queue.zmq_server"
           [] OTHER                   -> "xact.queue.zmq_client"]

SysProcs == {"p1", "p2", "p3"}

ProcOfNode(n) == CASE n = "a" -> "p1" [] n = "b" -> "p2" [] OTHER -> "p3"

\* The edges a system may declare: the owner is either end.
SysEdgeChoices ==
    {EdgeCfg(x[3], x[1], x[2], "feedforward") :
         x \in {y \in GraphNodes \X GraphNodes \X GraphNodes :
                    y[1] # y[2] /\ y[3] \in {y[1], y[2]}}}

\* Lists of edges with distinct ids (the id of an edge is its pair of paths).
SysEdgeLists ==
    {l \in UNION {[1..n -> SysEdgeChoices] : n \in 0..MaxEdge} :
         \A i, j \in DOMAIN l :
             (l[i].id_node_src = l[j].id_node_src
                  /\ l[i].id_node_dst = l[j].id_node_dst) => i = j}

SysCfg(placement, list_edge, differ) ==
    [process |-> placement,
     node    |-> [n \in GraphNodes |-> NodeCfg(ProcOfNode(n), "arbitrary")],
     edge    |-> list_edge,
     host    |-> HostTable(differ),
     queue   |-> QueueTable]

\* xact.sys._list_id_host: the sorted list of the hosts that have a process.
_list_id_host(c) ==
    SelectSeq(HostOrder, LAMBDA h : \E p \in DOMAIN c.process : c.process[p] = h)

\* xact.host._group_edges_by_class: the ids of the edges on the local host,
\* grouped by class.  The class queue_type is computed and not used: the
\* edge is filed under its ipc_type, and map_id_by_class has no key
\* 'inter_host', so an inter-host edge on the local host raises KeyError.
_group_edges_by_class(c, id_host_local) ==
    LET on_host_local == {i \in 1..Len(c.edge) :
                              id_host_local \in c.edge[i].list_id_host}
    IN  IF \E i \in on_host_local : c.edge[i].ipc_type = "inter_host"
        THEN [raised |-> Raise(Error("KeyError")), map_id_by_class |-> <<>>]
        ELSE [raised |-> Return(None),
              map_id_by_class |->
                  [k \in {"intra_process", "inter_process",
                          "inter_host_server", "inter_host_client"} |->
                       {i \in on_host_local : c.edge[i].ipc_type = k}]]

\* xact.host._construct_queues: one endpoint per edge of each class that
\* cfg['queue'] names, built as queue_impl(cfg, cfg_edge, id_host_local).
_construct_queues(c, map_id_by_class, id_host_local) ==
    LET classes == DOMAIN c.queue
        ids     == UNION {map_id_by_class[k] : k \in classes}
    IN  [i \in ids |->
             LET k == CHOOSE k \in classes : i \in map_id_by_class[k]
             IN  [class |-> k, module |-> c.queue[k], id_host |-> id_host_local]]

\* xact.host.connect_queues.
connect_queues(c, id_host_local) ==
    LET grouped == _group_edges_by_class(c, id_host_local)
    IN  IF grouped.raised.kind = "raise"
        THEN [raised |-> grouped.raised, map_queues |-> <<>>]
        ELSE [raised |-> Return(None),
              map_queues |-> _construct_queues(c, grouped.map_id_by_class,
                                               id_host_local)]

\* No scheduler is modelled in detail.
SchedulersAbsent ==
    /\ list_node = [p \in ProcessIds |-> <<>>]
    /\ pc = [p \in ProcessIds |-> "absent"]
    /\ idx = [p \in ProcessIds |-> 1]
    /\ list_signal = [p \in ProcessIds |-> <<>>]
    /\ idx_try = [p \in ProcessIds |-> 0]
    /\ term = [p \in ProcessIds |-> <<>>]
    /\ exit_status = [p \in ProcessIds |-> <<>>]
    /\ node_state = [n \in NodeIds |-> <<>>]
    /\ coro = [n \in NodeIds |-> "none"]
    /\ src_mem = [e \in EdgeIds |-> <<>>]
    /\ dst_mem = [e \in EdgeIds |-> <<>>]
    /\ buffer = [e \in EdgeIds |-> <<>>]
    /\ pipe = [e \in EdgeIds |-> <<>>]
    /\ n_remote = 0
    /\ n_step = [n \in NodeIds |-> 0]
    /\ n_retry = [p \in ProcessIds |-> 0]
    /\ reset_log = [p \in ProcessIds |-> <<>>]
    /\ last_call = [p \in ProcessIds |-> NoCall]
    /\ wrote = [n \in NodeIds |-> <<>>]
    /\ seen = [n \in NodeIds |-> <<>>]

\* xact.sys.start has been called in distributed mode with a prepared config.
SysInit ==
    /\ scenario = Scenario("system", FALSE, TRUE)
    /\ cfg \in {denormalize(SysCfg(placement, list_edge, differ)) :
                    placement \in [SysProcs -> HostIds],
                    list_edge \in SysEdgeLists, differ \in BOOLEAN}
    /\ SchedulersAbsent
    /\ sys_pc = [pc |-> "dispatch", i |-> 1, ret |-> <<>>]
    /\ host = [h \in HostIds |-> HostIdle]
    /\ endpoint = [h \in HostIds |-> <<>>]
    /\ kill = [pc |-> "idle", alive |-> {}, waited |-> {}]
    /\ applied = <<>>
    /\ heap = NoHeap
    /\ mpq = <<>>

\* xact.sys._command(cfg, id_host, 'start-host') for the next host of the
\* list.  For localhost the command is started with subprocess.Popen and
\* start goes on.  For any other host the ssh command is run with
\* subprocess.run, which returns when the command has ended; ssh or the
\* activation of the venv may fail (connected = FALSE), and then the command
\* ends with a non-zero status without starting the host agent.
SysCommand ==
    /\ sys_pc.pc = "dispatch"
    /\ sys_pc.i <= Len(_list_id_host(cfg))
    /\ LET id_host == _list_id_host(cfg)[sys_pc.i]
       IN  IF id_host = "localhost"
           THEN /\ host' = Upd(host, id_host,
                               [host[id_host] EXCEPT !.cmd = "running"])
                /\ sys_pc' = [sys_pc EXCEPT !.i = sys_pc.i + 1]
           ELSE /\ \E connected \in BOOLEAN :
                       host' = Upd(host, id_host,
                           IF connected
                           THEN [host[id_host] EXCEPT !.cmd = "running"]
                           ELSE [host[id_host] EXCEPT !.cmd = "exited",
                                                      !.status = <<255>>])
                /\ sys_pc' = [sys_pc EXCEPT !.pc = "wait"]
    /\ UNCHANGED <<procvars, heap, mpq, applied, endpoint, kill>>

\* subprocess.run returns once the command has ended.  Its result is
\* dropped: the status of the command is not looked at.
SysRunReturns ==
    /\ sys_pc.pc = "wait"
    /\ host[_list_id_host(cfg)[sys_pc.i]].cmd = "exited"
    /\ sys_pc' = [sys_pc EXCEPT !.pc = "dispatch", !.i = sys_pc.i + 1]
    /\ UNCHANGED <<procvars, heap, mpq, applied, host, endpoint, kill>>

\* xact.sys.start: return 0 after the loop over the hosts.
SysReturn ==
    /\ sys_pc.pc = "dispatch"
    /\ sys_pc.i > Len(_list_id_host(cfg))
    /\ sys_pc' = [sys_pc EXCEPT !.pc = "returned", !.ret = <<0>>]
    /\ UNCHANGED <<procvars, heap, mpq, applied, host, endpoint, kill>>

\* xact host start-host on host h: xact.host.start up to the join.  It
\* connects the queues and starts one child per process of the host.  An
\* exception of connect_queues is caught by logger.catch around start, which
\* then returns None, and sys.exit(None) ends the command with status 0.
HostStart(h) ==
    /\ host[h].cmd = "running"
    /\ host[h].map_queues = <<>>
    /\ LET r == connect_queues(cfg, h)
       IN  host' = Upd(host, h,
               IF r.raised.kind = "raise"
               THEN [host[h] EXCEPT !.map_queues = <<r>>, !.cmd = "exited",
                                    !.status = <<0>>]
               ELSE [host[h] EXCEPT !.map_queues = <<r>>,
                         !.procs = {p \in DOMAIN cfg.process :
                                        cfg.process[p] = h}])
    /\ UNCHANGED <<procvars, heap, mpq, applied, sys_pc, endpoint, kill>>

\* A child process of host h ends (its scheduler has exited).  Nothing
\* makes a child end: a system may run for ever.
ProcessExit(h, p) ==
    /\ p \in host[h].procs
    /\ host' = Upd(host, h, [host[h] EXCEPT !.procs = host[h].procs \ {p}])
    /\ UNCHANGED <<procvars, heap, mpq, applied, sys_pc, endpoint, kill>>

\* _start_all_hosted_processes: proc.join() has returned for every child;
\* start returns None and the command ends with status 0.
HostJoined(h) ==
    /\ host[h].cmd = "running"
    /\ host[h].map_queues # <<>>
    /\ host[h].procs = {}
    /\ host' = Upd(host, h, [host[h] EXCEPT !.cmd = "exited", !.status = <<0>>])
    /\ UNCHANGED <<procvars, heap, mpq, applied, sys_pc, endpoint, kill>>

SysNext ==
    \/ SysCommand
    \/ SysRunReturns
    \/ SysReturn
    \/ \E h \in HostIds : HostStart(h)
    \/ \E h \in HostIds, p \in SysProcs : ProcessExit(h, p)
    \/ \E h \in HostIds : HostJoined(h)

SysSpec == SysInit /\ [][SysNext]_vars

\* The inter-host edges of the config.
InterHostEdges == {i \in 1..Len(cfg.edge) : cfg.edge[i].ipc_type = "inter_host"}

\* The hosts whose connect_queues has built an endpoint of the class for
\* edge i.
HostsWithEndpoint(i, class) ==
    {h \in HostIds :
         /\ host[h].map_queues # <<>>
         /\ i \in DOMAIN host[h].map_queues[1].map_queues
         /\ host[h].map_queues[1].map_queues[i].class = class}

\* C14: once connect_queues has run on every host of the system, each
\* inter-host edge has an inter_host_server endpoint on its owner host and on
\* no other host, an inter_host_client endpoint on exactly one host, which is
\* the other host of the edge, and no endpoint on a host that is neither its
\* source host nor its destination host.
C14_OneServerOneClient ==
    (scenario.name = "system"
         /\ \A h \in Range(_list_id_host(cfg)) : host[h].map_queues # <<>>) =>
        \A i \in InterHostEdges :
            /\ HostsWithEndpoint(i, "inter_host_server")
                   = {cfg.edge[i].id_host_owner}
            /\ HostsWithEndpoint(i, "inter_host_client")
                   = cfg.edge[i].list_id_host \ {cfg.edge[i].id_host_owner}
            /\ \A h \in HostIds \ cfg.edge[i].list_id_host :
                   host[h].map_queues # <<>> =>
                       i \notin DOMAIN host[h].map_queues[1].map_queues

\* C16: dispatching start-host to a host does not wait for the processes of
\* that host: the orchestrator is never held in the command of a host whose
\* child processes are running while a later host of the list has not been
\* given its command.
C16_DispatchDoesNotWaitForProcesses ==
    (scenario.name = "system" /\ sys_pc.pc = "wait") =>
        LET list_id_host == _list_id_host(cfg)
        IN  host[list_id_host[sys_pc.i]].procs # {} =>
                \A k \in (sys_pc.i + 1)..Len(list_id_host) :
                    host[list_id_host[k]].cmd # "none"

\* C17: when the command given to a host has ended with a non-zero status,
\* sys.start does not return 0.
C17_NonZeroHostStatusIsFatal ==
    (scenario.name = "system" /\ sys_pc.pc = "returned") =>
        ((\E h \in HostIds : host[h].status # <<>> /\ host[h].status # <<0>>)
             => sys_pc.ret # <<0>>)

(***************************************************************************)
(* The endpoints of the inter-host edges: the constructors of              *)
(* xact.queue.zmq_server.Queue and xact.queue.RemoteQueueClient, called as *)
(* _construct_queues calls them, queue_impl(cfg, cfg_edge, id_host_local). *)
(***************************************************************************)
\* _port_number(cfg_host, cfg_edge).
_port_number(cfg_host, cfg_edge) ==
    LET port_lo == cfg_host.port_range[1]
        port_hi == cfg_host.port_range[2]
        port    == port_lo + cfg_edge.idx_edge[1]
    IN  IF port > port_hi
        THEN [raised |-> Raise(Error("RuntimeError")), port |-> 0]
        ELSE [raised |-> Return(None), port |-> port]

\* xact.queue.zmq_server.Queue.__init__: bind to tcp://*:port, the port
\* taken from the port range of cfg['host'][id_host].
ZmqServerQueue(c, cfg_edge, id_host) ==
    LET p == _port_number(c.host[id_host], cfg_edge)
    IN  [raised |-> p.raised, op |-> "bind", hostname |-> "*",
         port |-> p.port]

\* xact.queue.RemoteQueueClient.__init__: connect to tcp://hostname:port,
\* hostname and port range both taken from cfg['host'][id_host].
RemoteQueueClient(c, cfg_edge, id_host) ==
    LET cfg_host == c.host[id_host]
        p        == _port_number(cfg_host, cfg_edge)
    IN  [raised |-> p.raised, op |-> "connect",
         hostname |-> cfg_host.hostname, port |-> p.port]

\* The config of a system is given; no command runs.
EndpointInit ==
    /\ scenario = Scenario("endpoint", FALSE, TRUE)
    /\ cfg \in {denormalize(SysCfg(placement, list_edge, differ)) :
                    placement \in [SysProcs -> HostIds],
                    list_edge \in SysEdgeLists, differ \in BOOLEAN}
    /\ SchedulersAbsent
    /\ SysIdle

\* The endpoint of inter-host edge i is constructed on host h, one of the two
\* hosts of the edge: the server class on the owner host, the client class
\* on the other, each with id_host = h.
QueueInit(h, i) ==
    /\ i \in InterHostEdges
    /\ h \in cfg.edge[i].list_id_host
    /\ i \notin DOMAIN endpoint[h]
    /\ LET q == IF h = cfg.edge[i].id_host_owner
                THEN ZmqServerQueue(cfg, cfg.edge[i], h)
                ELSE RemoteQueueClient(cfg, cfg.edge[i], h)
       IN  endpoint' = Upd(endpoint, h,
               [j \in (DOMAIN endpoint[h]) \cup {i} |->
                    IF j = i THEN q ELSE endpoint[h][j]])
    /\ UNCHANGED <<procvars, heap, mpq, applied, sys_pc, host, kill>>

EndpointNext == \E h \in HostIds, i \in 1..MaxEdge : QueueInit(h, i)

EndpointSpec == EndpointInit /\ [][EndpointNext]_vars

\* C15: when both endpoints of an inter-host edge have been constructed, the
\* client connects to the hostname of the owner host, on the port
\* port_range.lo of the owner host plus idx_edge, and that is the port the
\* server of the owner host is bound to.
C15_ClientConnectsToOwnerPort ==
    scenario.name = "endpoint" =>
        \A i \in InterHostEdges :
            LET owner == cfg.edge[i].id_host_owner
            IN  \A h \in cfg.edge[i].list_id_host \ {owner} :
                    (/\ i \in DOMAIN endpoint[owner]
                     /\ i \in DOMAIN endpoint[h]
                     /\ endpoint[owner][i].raised.kind = "return"
                     /\ endpoint[h][i].raised.kind = "return") =>
                        /\ endpoint[h][i].op = "connect"
                        /\ endpoint[h][i].hostname = cfg.host[owner].hostname
                        /\ endpoint[h][i].port
                               = cfg.host[owner].port_range[1]
                                     + cfg.edge[i].idx_edge[1]
                        /\ endpoint[h][i].port = endpoint[owner][i].port

(***************************************************************************)
(* xact.host.stop: kill_process_by_prefix over the processes of a host.    *)
(* p1 and p2 carry the system id as the prefix of their name; child is a   *)
(* process started by p1, under a name of its own.                         *)
(***************************************************************************)
KillProcs == {"p1", "p2", "child"}

\* parent.children(recursive = True) followed by the parent itself.
ProcessTree(pid) == IF pid = "p1" THEN {"p1", "child"} ELSE {pid}

\* _pid_from_prefix: the live processes whose name starts with the prefix;
\* nothing when psutil is not installed.
_pid_from_prefix(k) ==
    IF ~k.psutil THEN {} ELSE k.alive \cap {"p1", "p2"}

\* stop is called on a host where some processes of the system are alive.
\* ignores holds the processes that ignore SIGTERM (a handler that does not
\* exit); no process of the system ends by itself.
StopInit ==
    /\ scenario = Scenario("stop", FALSE, TRUE)
    /\ cfg = denormalize(SysCfg([p \in SysProcs |-> "localhost"], <<>>, FALSE))
    /\ SchedulersAbsent
    /\ sys_pc = [pc |-> "idle", i |-> 1, ret |-> <<>>]
    /\ host = [h \in HostIds |-> HostIdle]
    /\ endpoint = [h \in HostIds |-> <<>>]
    /\ kill \in {[pc |-> "sigterm_list", psutil |-> psutil, alive |-> alive,
                  ignores |-> ignores, set_pid |-> {}, waited |-> {},
                  sent |-> [p \in KillProcs |-> {}]] :
                     psutil \in BOOLEAN,
                     alive \in (SUBSET KillProcs) \ {{}},
                     ignores \in SUBSET KillProcs}
    /\ applied = <<>>
    /\ heap = NoHeap
    /\ mpq = <<>>

\* kill_process_by_prefix: set_pid = _pid_from_prefix(prefix), before the
\* pass with SIGTERM and again before the pass with SIGKILL; when the
\* second set is empty it returns.
KillList ==
    /\ kill.pc \in {"sigterm_list", "sigkill_list"}
    /\ LET set_pid == _pid_from_prefix(kill)
       IN  kill' = [kill EXCEPT
                        !.set_pid = set_pid,
                        !.pc = IF kill.pc = "sigterm_list" THEN "sigterm"
                               ELSE IF set_pid = {} THEN "done"
                               ELSE "sigkill"]
    /\ UNCHANGED <<procvars, heap, mpq, applied, sys_pc, host, endpoint>>

\* kill_process_tree, one pass of its loop: a pid that is gone is skipped;
\* else the signal is sent to the parent and all its descendants, and
\* psutil.wait_procs(children) is entered, which has no timeout.
KillSignal(pid) ==
    /\ kill.pc \in {"sigterm", "sigkill"}
    /\ kill.waited = {}
    /\ pid \in kill.set_pid
    /\ IF pid \notin kill.alive
       THEN kill' = [kill EXCEPT !.set_pid = kill.set_pid \ {pid}]
       ELSE LET children == ProcessTree(pid) \cap kill.alive
            IN  kill' = [kill EXCEPT
                    !.set_pid = kill.set_pid \ {pid},
                    !.waited = children,
                    !.sent = [p \in KillProcs |->
                                  IF p \in children
                                  THEN kill.sent[p] \cup {kill.pc}
                                  ELSE kill.sent[p]]]
    /\ UNCHANGED <<procvars, heap, mpq, applied, sys_pc, host, endpoint>>

\* A process ends: it has been sent SIGKILL, or SIGTERM which it does not
\* ignore.
ProcessDies(p) ==
    /\ kill.pc # "idle"
    /\ p \in kill.alive
    /\ \/ "sigkill" \in kill.sent[p]
       \/ "sigterm" \in kill.sent[p] /\ p \notin kill.ignores
    /\ kill' = [kill EXCEPT !.alive = kill.alive \ {p}]
    /\ UNCHANGED <<procvars, heap, mpq, applied, sys_pc, host, endpoint>>

\* psutil.wait_procs returns when every process it waits for has ended.
WaitProcsReturns ==
    /\ kill.pc \in {"sigterm", "sigkill"}
    /\ kill.waited # {}
    /\ kill.waited \cap kill.alive = {}
    /\ kill' = [kill EXCEPT !.waited = {}]
    /\ UNCHANGED <<procvars, heap, mpq, applied, sys_pc, host, endpoint>>

\* kill_process_tree returns after the last pid.
KillTreeReturns ==
    /\ kill.pc \in {"sigterm", "sigkill"}
    /\ kill.set_pid = {}
    /\ kill.waited = {}
    /\ kill' = [kill EXCEPT
                    !.pc = IF kill.pc = "sigterm" THEN "sigkill_list" ELSE "done"]
    /\ UNCHANGED <<procvars, heap, mpq, applied, sys_pc, host, endpoint>>

StopNext ==
    \/ KillList
    \/ \E pid \in KillProcs : KillSignal(pid)
    \/ \E p \in KillProcs : ProcessDies(p)
    \/ WaitProcsReturns
    \/ KillTreeReturns

StopSpec == StopInit /\ [][StopNext]_vars

\* C18: stop goes on to the forceful kill when a process ignores the
\* graceful signal: it is never held, in the pass with the graceful signal,
\* in a wait for a live process that ignores that signal (that wait has no
\* time limit and the process has been sent nothing that ends it, so stop
\* would not complete and the process would remain).
C18_StopGoesOnToForcefulKill ==
    (scenario.name = "stop" /\ kill.pc = "sigterm") =>
        \A p \in kill.waited \cap kill.alive : p \notin kill.ignores

AtomicTypes == {"py_dict"}

Named(spec) == [kind |-> "str", spec |-> spec]

\* The dict {'type': type}.
Parameterised(type) ==
    [kind |-> "dict", first_key |-> "type", first_val |-> Named(type)]

Compound(children) == [kind |-> "list", children |-> children]

\* The dict {name: content}, an item of a compound type.
Field(name, content) == [first_key |-> name, first_val |-> content]

\* The dict node_info that _expand_node makes and _iter_expanded completes.
\* Its first key is 'category'.
NodeInfo(category, src_path) ==
    [first_key |-> "category", first_val |-> Named(category),
     category |-> category, src_path |-> src_path,
     dst_path |-> Tail(src_path), dst_level |-> Len(src_path) - 1]

RECURSIVE Concat(_)
Concat(seqs) == IF seqs = <<>> THEN <<>> ELSE Head(seqs) \o Concat(Tail(seqs))

\* The node_info of a type or field and of all below it, in the order of
\* _iter_expanded: _iter_depth_first and _expand_node over the content, a
\* scope closer after the children of a compound type.  typeinfo is a plain
\* dict: the name of a type that is not atomic raises KeyError.
RECURSIVE ExpandType(_, _, _)
ExpandType(path, name, content) ==
    LET src_path == Append(path, name)
        KeyError == [raised |-> Raise(Error("KeyError")), infos |-> <<>>]
    IN  IF content.kind = "str"
        THEN IF content.spec \in AtomicTypes
             THEN [raised |-> Return(None),
                   infos |-> <<NodeInfo("named_type", src_path)>>]
             ELSE KeyError
        ELSE IF content.kind = "dict"
        THEN IF content.first_key = "type"
                    /\ content.first_val.spec \in AtomicTypes
             THEN [raised |-> Return(None),
                   infos |-> <<NodeInfo("parameterised_type", src_path)>>]
             ELSE KeyError
        ELSE LET sub == [i \in DOMAIN content.children |->
                             ExpandType(src_path,
                                        content.children[i].first_key,
                                        content.children[i].first_val)]
             IN  IF \E i \in DOMAIN sub : sub[i].raised.kind = "raise"
                 THEN KeyError
                 ELSE [raised |-> Return(None),
                       infos |->
                           <<NodeInfo("compound_type", src_path)>>
                               \o Concat([i \in DOMAIN sub |-> sub[i].infos])
                               \o (IF content.children = <<>> THEN <<>>
                                   ELSE <<NodeInfo("compound_type_scope_closer",
                                                   src_path)>>)]

\* xact.cfg.data.denormalize on cfg['data']: each type becomes the list of
\* its node_info dicts.
data_denormalize(cfg_data) ==
    LET expanded == [t \in DOMAIN cfg_data |->
                         ExpandType(<<>>, t, cfg_data[t])]
    IN  IF \E t \in DOMAIN cfg_data : expanded[t].raised.kind = "raise"
        THEN [raised |-> Raise(Error("KeyError")), data |-> cfg_data]
        ELSE [raised |-> Return(None),
              data |-> [t \in DOMAIN cfg_data |-> Compound(expanded[t].infos)]]

\* xact.cfg.edge.denormalize: the host of each node, the derived fields of
\* each edge, and the flag is_inter_host_edge_owner of each host.
edge_denormalize(c) ==
    LET d      == denormalize(c)
        owners == {d.edge[i].id_host_owner :
                       i \in {k \in 1..Len(d.edge) :
                                  d.edge[k].ipc_type = "inter_host"}}
    IN  [d EXCEPT
             !.node = [n \in DOMAIN c.node |->
                           [process       |-> c.node[n].process,
                            functionality |-> c.node[n].functionality,
                            host          |-> HostOfNode(c, n)]],
             !.host = [h \in DOMAIN c.host |->
                           [hostname   |-> c.host[h].hostname,
                            port_range |-> c.host[h].port_range,
                            is_inter_host_edge_owner |-> h \in owners]]]

\* xact.cfg.denormalize(cfg).
cfg_denormalize(c) ==
    LET dd == data_denormalize(c.data)
    IN  IF dd.raised.kind = "raise" THEN [raised |-> dd.raised, cfg |-> c]
        ELSE [raised |-> Return(None),
              cfg |-> edge_denormalize([c EXCEPT !.data = dd.data])]

\* The data sections of the configs: none, a named type (the pipeline of the
\* system tests), a parameterised type, a compound type with one field.
DataChoices ==
    {<<>>,
     [t \in {"python_dict"} |-> Named("py_dict")],
     [t \in {"python_dict"} |-> Parameterised("py_dict")],
     [t \in {"python_dict"} |->
          Compound(<<Field("x", Named("py_dict"))>>)]}

\* The config without its section id_section.
WithoutSection(c, id_section) ==
    [k \in (DOMAIN c) \ {id_section} |-> c[k]]

\* A validated config that has not been denormalized.  The section queue is
\* not required by the schema of a normalized config: the config has it or
\* has it not.
DenormalizeInit ==
    /\ scenario = Scenario("denormalize", FALSE, TRUE)
    /\ cfg \in {IF has_queue THEN c ELSE WithoutSection(c, "queue") :
                    c \in {[process |-> placement,
                            node    |-> [n \in GraphNodes |->
                                   NodeCfg(ProcOfNode(n), "arbitrary")],
                            edge    |-> list_edge,
                            host    |-> HostTable(FALSE),
                            queue   |-> QueueTable,
                            data    |-> data] :
                               placement \in [SysProcs -> HostIds],
                               list_edge \in SysEdgeLists,
                               data \in DataChoices},
                    has_queue \in BOOLEAN}
    /\ SchedulersAbsent
    /\ SysIdle

\* denormalize is applied to the config, or to what its last application
\* returned.
Denormalize ==
    /\ scenario.name = "denormalize"
    /\ Len(applied) < MaxApply
    /\ applied # <<>> => applied[Len(applied)].raised.kind = "return"
    /\ applied' = Append(applied,
           cfg_denormalize(IF applied = <<>> THEN cfg
                           ELSE applied[Len(applied)].cfg))
    /\ UNCHANGED <<procvars, heap, mpq, sys_pc, host, endpoint, kill>>

DenormalizeNext == Denormalize

DenormalizeSpec == DenormalizeInit /\ [][DenormalizeNext]_vars

\* C20: a second application of denormalize returns, and returns the config
\* that the first application returned.
C20_DenormalizeIdempotent ==
    (scenario.name = "denormalize" /\ Len(applied) >= 2) =>
        /\ applied[2].raised.kind = "return"
        /\ applied[2].cfg = applied[1].cfg

(***************************************************************************)
(* xact.cfg.validate.denormalized: the schema of a denormalized config.    *)
(* The edges of the model name their ends by node id, so relpath_src and   *)
(* relpath_dst, which hold the rest of the path, have no counterpart.      *)
(***************************************************************************)
\* The fields that _denormalize_edge_section requires of an edge.
RequiredEdgeFields ==
    {"id_edge", "owner", "id_node_src", "id_node_dst", "ipc_type",
     "idx_edge", "list_id_process", "list_id_host", "id_host_owner",
     "id_host_src", "id_host_dst"}

\* jsonschema.validate(cfg, _denormalized_cfg_schema()) does not raise.
_denormalized_cfg_schema(c) ==
    /\ {"host", "process", "node", "edge", "data", "queue"} \subseteq DOMAIN c
    /\ \A h \in DOMAIN c.host :
           /\ "is_inter_host_edge_owner" \in DOMAIN c.host[h]
           /\ c.host[h].is_inter_host_edge_owner \in BOOLEAN
    /\ \A n \in DOMAIN c.node :
           /\ {"process", "functionality", "host"} \subseteq DOMAIN c.node[n]
           /\ c.node[n].host \in HostIds
    /\ \A i \in DOMAIN c.edge :
           /\ RequiredEdgeFields \subseteq DOMAIN c.edge[i]
           /\ c.edge[i].idx_edge = <<>> \/ c.edge[i].idx_edge[1] \in Nat

\* C21: what denormalize returns for a valid normalized config satisfies the
\* schema of a denormalized config: the derived fields of every edge, the
\* host of every node, the flag is_inter_host_edge_owner of every host, and
\* a table of queue implementations also when the input has none.
C21_DenormalizedSatisfiesSchema ==
    (scenario.name = "denormalize" /\ Len(applied) >= 1
         /\ applied[1].raised.kind = "return") =>
        _denormalized_cfg_schema(applied[1].cfg)

(***************************************************************************)
(* xact.cfg.prepare and xact.cfg.validate.normalized over configs of two   *)
(* nodes a and b with at most MaxEdge edges.  The path of an edge end is   *)
(* held as the list of its parts, what path.split('.') gives: the parts    *)
(* <<"a", "outputs", "x">> are the path 'a.outputs.x', the parts <<"a">>   *)
(* are the path 'a', which holds no '.'.  A string of the section system   *)
(* is Str(s); a dict in its place is Dict(d).                              *)
(***************************************************************************)
ValidateNodes == {"a", "b"}

Str(s) == [kind |-> "str", val |-> s]

Dict(d) == [kind |-> "dict", val |-> d]

\* Paths of edge sources: an output of a or b, a path without '.', an input.
SrcPaths ==
    {<<n, "outputs", "x">> : n \in ValidateNodes}
        \cup {<<"a">>, <<"a", "inputs", "x">>}

\* Paths of edge destinations: inputs of a and b, a path without '.'.
DstPaths ==
    {<<"a", "inputs", "x">>, <<"b", "inputs", "x">>, <<"b", "inputs", "y">>,
     <<"b">>}

PathEdge(owner, data, src, dst, dirn) ==
    [owner |-> owner, data |-> data, src |-> src, dst |-> dst, dirn |-> dirn]

\* The edges of the configs: owned by b, or by a node z that is not declared.
PathEdgeChoices ==
    {PathEdge("b", "python_dict", src, dst, dirn) :
         src \in SrcPaths, dst \in DstPaths,
         dirn \in {"feedforward", "feedback"}}
        \cup {PathEdge("z", "python_dict", <<"a", "outputs", "x">>,
                       <<"b", "inputs", "x">>, "feedforward")}

PathEdgeLists == UNION {[1..n -> PathEdgeChoices] : n \in 0..MaxEdge}

\* A config as it is loaded: both nodes in process p1 on host h1, or node a
\* in p1 on h1 and node b in p2, which is on h1 as well or on h2, where h2
\* has a range of one port.
LoadedCfg(two_procs, two_hosts, list_edge) ==
    [system  |-> [k \in {"id_system"} |-> Str("some_system")],
     host    |-> HostTable(TRUE),
     process |-> IF two_procs
                 THEN [p \in {"p1", "p2"} |->
                           IF two_hosts /\ p = "p2" THEN "h2" ELSE "h1"]
                 ELSE [p \in {"p1"} |-> "h1"],
     node    |-> [n \in ValidateNodes |->
                      NodeCfg(IF two_procs /\ n = "b" THEN "p2" ELSE "p1",
                              "arbitrary")],
     edge    |-> list_edge,
     data    |-> [t \in {"python_dict"} |-> Named("py_dict")]]

\* d[k] = v on a dict.
SetKey(d, k, v) == [x \in (DOMAIN d) \cup {k} |-> IF x = k THEN v ELSE d[x]]

\* The runtime block that xact.cfg.prepare writes.
PreparedRuntime(id_system) ==
    [opt   |-> [do_make_ready |-> FALSE, is_distributed |-> TRUE],
     id    |-> [id_system |-> id_system, id_cfg |-> "id_cfg",
                id_host |-> "tbd", id_process |-> "tbd", id_node |-> "tbd",
                ts_run |-> "00000000000000", id_run |-> "00000000"],
     state |-> "start"]

\* jsonschema.validate(cfg, _normalized_cfg_schema()) does not raise.  The
\* strings of the configs all match their patterns; what can fail is a
\* required key that is missing, a key that is not allowed, and a dict where
\* a string is required.
_normalized_cfg_schema(c) ==
    /\ {"system", "host", "process", "node", "edge", "data"}
           \subseteq DOMAIN c
    /\ DOMAIN c.system = {"id_system"}
    /\ c.system.id_system.kind = "str"
    /\ \A i \in DOMAIN c.edge :
           {"owner", "data", "src", "dst"} \subseteq DOMAIN c.edge[i]
    /\ "runtime" \in DOMAIN c =>
           /\ DOMAIN c.runtime = {"opt", "id", "proc"}
           /\ DOMAIN c.runtime.opt = {"do_make_ready", "is_local"}
           /\ {"id_host", "id_run", "ts_run", "id_cfg"}
                  \subseteq DOMAIN c.runtime.id
           /\ DOMAIN c.runtime.id \subseteq
                  {"id_system", "id_cfg", "id_host", "id_process", "id_node",
                   "ts_run", "id_run"}

CfgError == Error("CfgError")

\* _check(item, set_valid, msg).
_check(item, set_valid) ==
    IF item \notin set_valid THEN Raise(CfgError) ELSE Return(None)

\* The first outcome of a list of outcomes that is a raise.
RECURSIVE FirstRaise(_)
FirstRaise(outcomes) ==
    IF outcomes = <<>> THEN Return(None)
    ELSE IF Head(outcomes).kind = "raise" THEN Head(outcomes)
    ELSE FirstRaise(Tail(outcomes))

_check_process_consistency(c) ==
    IF \E p \in DOMAIN c.process : c.process[p] \notin DOMAIN c.host
    THEN Raise(CfgError) ELSE Return(None)

\* The configs have no section req_host_cfg and no node names one.
_check_node_consistency(c) ==
    IF \E n \in DOMAIN c.node :
           \/ c.node[n].process \notin DOMAIN c.process
           \/ /\ "state_type" \in DOMAIN c.node[n]
              /\ c.node[n].state_type \notin DOMAIN c.data
    THEN Raise(CfgError) ELSE Return(None)

\* The body of the loop without the check of the source node.
CheckEdge_without_src(c, cfg_edge) ==
    FirstRaise(<<
        _check(cfg_edge.owner, DOMAIN c.node),
        _check(cfg_edge.data, DOMAIN c.data),
        _check(cfg_edge.dst[1], DOMAIN c.node),
        IF Len(cfg_edge.src) < 2 THEN Raise(Error("IndexError"))
        ELSE IF cfg_edge.src[2] # "outputs" THEN Raise(CfgError)
        ELSE Return(None),
        IF Len(cfg_edge.dst) < 2 THEN Raise(Error("IndexError"))
        ELSE IF cfg_edge.dst[2] # "inputs" THEN Raise(CfgError)
        ELSE Return(None)>>)

\* The body of the loop of _check_edge_consistency for one edge.  The part
\* at index 1 of a path without '.' does not exist: IndexError.
CheckEdge(c, cfg_edge) ==
    FirstRaise(<<
        _check(cfg_edge.owner, DOMAIN c.node),
        _check(cfg_edge.data, DOMAIN c.data),
        _check(cfg_edge.src[1], DOMAIN c.node),
        _check(cfg_edge.dst[1], DOMAIN c.node),
        IF Len(cfg_edge.src) < 2 THEN Raise(Error("IndexError"))
        ELSE IF cfg_edge.src[2] # "outputs" THEN Raise(CfgError)
        ELSE Return(None),
        IF Len(cfg_edge.dst) < 2 THEN Raise(Error("IndexError"))
        ELSE IF cfg_edge.dst[2] # "inputs" THEN Raise(CfgError)
        ELSE Return(None)>>)

_check_edge_consistency(c) ==
    FirstRaise([i \in 1..Len(c.edge) |-> CheckEdge(c, c.edge[i])])

\* The loop of _check_edge_end_uniqueness from edge i on: one set holds the
\* source paths and the destination paths seen so far.
RECURSIVE EdgeEndLoop(_, _, _)
EdgeEndLoop(list_edge, i, set_edge_path) ==
    IF i > Len(list_edge) THEN Return(None)
    ELSE IF list_edge[i].src \in set_edge_path THEN Raise(CfgError)
    ELSE IF list_edge[i].dst \in set_edge_path \cup {list_edge[i].src}
         THEN Raise(CfgError)
    ELSE EdgeEndLoop(list_edge, i + 1,
                     set_edge_path \cup {list_edge[i].src, list_edge[i].dst})

\* The loop with the test of the source paths only.
RECURSIVE SrcEndLoop(_, _, _)
SrcEndLoop(list_edge, i, set_edge_path) ==
    IF i > Len(list_edge) THEN Return(None)
    ELSE IF list_edge[i].src \in set_edge_path THEN Raise(CfgError)
    ELSE SrcEndLoop(list_edge, i + 1,
                    set_edge_path \cup {list_edge[i].src, list_edge[i].dst})

_check_edge_end_uniqueness_src_only(c) == SrcEndLoop(c.edge, 1, {})

_check_edge_end_uniqueness(c) == EdgeEndLoop(c.edge, 1, {})

\* _check_required_host_configuration does nothing for a config without
\* the section req_host_cfg.
_check_consistency(c) ==
    FirstRaise(<<_check_process_consistency(c),
                 _check_node_consistency(c),
                 _check_edge_consistency(c),
                 _check_edge_end_uniqueness(c)>>)

\* _validate_with_schema(cfg, _normalized_cfg_schema()): a ValidationError
\* becomes a CfgError; what _check_consistency raises is passed on.
normalized(c) ==
    IF ~_normalized_cfg_schema(c) THEN Raise(CfgError)
    ELSE _check_consistency(c)

EmptyDict == [k \in {} |-> None]

\* xact.cfg.util.apply(data, address, value) for an address of two or three
\* parts: a key that is missing on the way is created as a dict; a string on
\* the way does not support item assignment (TypeError).
util_apply(data, address, value) ==
    LET with1    == IF address[1] \in DOMAIN data THEN data
                    ELSE SetKey(data, address[1], EmptyDict)
        subtree1 == with1[address[1]]
        with2    == IF address[2] \in DOMAIN subtree1 THEN subtree1
                    ELSE SetKey(subtree1, address[2], Dict(EmptyDict))
        subtree2 == with2[address[2]]
    IN  IF Len(address) = 2
        THEN [raised |-> Return(None),
              data   |-> SetKey(with1, address[1],
                                SetKey(subtree1, address[2], Str(value)))]
        ELSE IF subtree2.kind = "str"
        THEN [raised |-> Raise(Error("TypeError")), data |-> data]
        ELSE [raised |-> Return(None),
              data   |-> SetKey(with1, address[1],
                             SetKey(with2, address[2],
                                 Dict(SetKey(subtree2.val, address[3],
                                             Str(value)))))]

\* xact.cfg.override.apply(cfg, tup_overrides): a KeyError of util.apply
\* becomes a RuntimeError, any other exception is passed on.
RECURSIVE override_apply(_, _)
override_apply(c, tup_overrides) ==
    IF tup_overrides = <<>> THEN [raised |-> Return(None), data |-> c]
    ELSE LET r == util_apply(c, Head(tup_overrides).address,
                             Head(tup_overrides).value)
         IN  IF r.raised.kind = "raise" THEN r
             ELSE override_apply(r.data, Tail(tup_overrides))

\* The overrides of a call: none, a new id of the system, a field below the
\* id of the system.
OverrideChoices ==
    {<<>>,
     <<[address |-> <<"system", "id_system">>, value |-> "other_system"]>>,
     <<[address |-> <<"system", "id_system", "x">>, value |-> "v"]>>}

\* What a call leaves behind: the exception it raises, or what it returns
\* (a config or None); caught is the exception that loguru.logger.catch
\* has logged and dropped.
Outcome(op, raised, returned, caught) ==
    [op |-> op, raised |-> raised, returned |-> returned, caught |-> caught]

\* loguru.logger.catch(exclude = CfgError) around a function: a CfgError is
\* raised again, any other exception is logged and the call returns None.
logger_catch(op, raised) ==
    IF raised.kind = "return" THEN Outcome(op, raised, "cfg", "")
    ELSE IF raised.val = CfgError THEN Outcome(op, raised, "", "")
    ELSE Outcome(op, Return(None), "None", raised.val.cause)

\* xact.cfg.prepare(string_cfg = ..., tup_overrides = ...); has_cfg is false
\* when neither path_cfg nor string_cfg is given.
prepare(has_cfg, string_cfg, tup_overrides) ==
    LET over == override_apply(string_cfg, tup_overrides)
        c    == over.data
    IN  logger_catch("prepare",
            IF ~has_cfg THEN Raise(CfgError)
            ELSE IF over.raised.kind = "raise" THEN over.raised
            ELSE IF "system" \notin DOMAIN c
                        \/ "id_system" \notin DOMAIN c.system
            THEN Raise(Error("KeyError"))
            ELSE normalized(SetKey(c, "runtime",
                                   PreparedRuntime(c.system.id_system))))

\* A loaded config, with or without its section system.
ValidateInit ==
    /\ scenario \in {Scenario("validate", x[1], x[2]) :
                         x \in {y \in BOOLEAN \X BOOLEAN : y[2] => ~y[1]}}
    /\ cfg \in {IF has_system THEN c ELSE WithoutSection(c, "system") :
                    c \in {LoadedCfg(~scenario.same_process,
                                     scenario.is_distributed, list_edge) :
                               list_edge \in PathEdgeLists},
                    has_system \in BOOLEAN}
    /\ SchedulersAbsent
    /\ SysIdle

\* xact.cfg.validate.normalized is called on the config.
Validate ==
    /\ scenario.name = "validate"
    /\ applied = <<>>
    /\ applied' = <<Outcome("normalized", normalized(cfg),
                       IF normalized(cfg).kind = "return" THEN "cfg" ELSE "",
                       "")>>
    /\ UNCHANGED <<procvars, heap, mpq, sys_pc, host, endpoint, kill>>

\* xact.cfg.prepare is called on the config.
Prepare ==
    /\ scenario.name = "validate"
    /\ applied = <<>>
    /\ \E has_cfg \in BOOLEAN, tup_overrides \in OverrideChoices :
           /\ has_cfg \/ tup_overrides = <<>>
           /\ applied' = <<prepare(has_cfg, cfg, tup_overrides)>>
    /\ UNCHANGED <<procvars, heap, mpq, sys_pc, host, endpoint, kill>>

ValidateNext == Validate \/ Prepare

ValidateSpec == ValidateInit /\ [][ValidateNext]_vars

\* _add_src_info and _add_dst_info: the node of an edge end is the first
\* part of its path.
EdgeEnds(cfg_edge) ==
    EdgeCfg(cfg_edge.owner, cfg_edge.src[1], cfg_edge.dst[1], cfg_edge.dirn)

\* The config with the derived fields of its edges.
PathCfgDenormalized(c) ==
    denormalize([process |-> c.process, node |-> c.node, host |-> c.host,
                 edge |-> [i \in 1..Len(c.edge) |-> EdgeEnds(c.edge[i])]])

\* normalized has been called on the config and has returned it.
Accepted ==
    /\ scenario.name = "validate"
    /\ applied # <<>>
    /\ applied[1].op = "normalized"
    /\ applied[1].raised.kind = "return"

\* Every inter-host edge of the config has a port inside the port range of
\* the host that owns it.
PortRangeHolds(c) ==
    LET d == PathCfgDenormalized(c)
    IN  \A i \in 1..Len(d.edge) :
            d.edge[i].ipc_type = "inter_host" =>
                _port_number(d.host[d.edge[i].id_host_owner],
                             d.edge[i]).raised.kind = "return"

\* C22: every config that validation accepts has, for each inter-host edge,
\* the index of the edge plus the low end of the port range of its owner at
\* most the high end: a config with more inter-host edges owned by a host
\* than the host has ports is rejected by validation.
C22_ValidatorEnforcesPortRange ==
    Accepted => PortRangeHolds(cfg)

\* C23: every config that validation accepts has no cycle of feedforward
\* intra-process edges in any process; a feedforward edge from a node to
\* itself is such a cycle.
C23_ValidatorEnforcesAcyclicity ==
    Accepted =>
        LET d == PathCfgDenormalized(cfg)
        IN  \A p \in DOMAIN cfg.process :
                Acyclic({<<d.edge[i].id_node_src, d.edge[i].id_node_dst>> :
                             i \in {k \in 1..Len(d.edge) :
                                        /\ d.edge[k].dirn = "feedforward"
                                        /\ d.edge[k].ipc_type = "intra_process"
                                        /\ p \in d.edge[k].list_id_process}})

\* Two edges of the config have the same source path or the same
\* destination path.
SharedEnd(c) ==
    \E i, j \in 1..Len(c.edge) :
        i # j /\ (c.edge[i].src = c.edge[j].src
                      \/ c.edge[i].dst = c.edge[j].dst)

\* The checks that come before the check of the edge ends have passed.
ReachesEdgeEndCheck(c) ==
    /\ _normalized_cfg_schema(c)
    /\ _check_process_consistency(c).kind = "return"
    /\ _check_node_consistency(c).kind = "return"
    /\ _check_edge_consistency(c).kind = "return"

C25_PrepareReturnsCfgOrRaisesCfgError ==
    (scenario.name = "validate" /\ applied # <<>>
         /\ applied[1].op = "prepare") =>
        \/ applied[1].raised = Raise(CfgError)
        \/ applied[1].raised.kind = "return" /\ applied[1].returned = "cfg"

(***************************************************************************)
(* The config after xact.cfg.prepare has returned it: what xact.sys.start, *)
(* the host agent and xact.proc.start write to it.  A host agent works on  *)
(* the deep copy that _command has made for it; in local mode all of it    *)
(* works on the one config of the caller.                                  *)
(***************************************************************************)
\* cfg['runtime']['id'] as prepare leaves it.
RuntimeIds ==
    [id_host |-> "tbd", id_process |-> "tbd", id_run |-> "00000000"]

\* The placements of the three processes of the configs.
LifecyclePlacements ==
    {[p \in SysProcs |-> "localhost"],
     [p \in SysProcs |-> IF p = "p1" THEN "h1" ELSE "localhost"],
     [p \in SysProcs |-> IF p = "p1" THEN "h1" ELSE "h2"]}

\* The first two lines of xact.sys.start.
WithRunId(c) ==
    SetKey(c, "runtime",
           [id |-> [c.runtime.id EXCEPT !.id_run = "id_run"]])

WithIds(c, id_host, id_process) ==
    SetKey(c, "runtime",
           [id |-> [c.runtime.id EXCEPT !.id_host = id_host,
                                        !.id_process = id_process]])

\* The config when _run_locally calls xact.proc.start: every process on
\* localhost, the process mainprocess added, every node in mainprocess, the
\* config denormalized, every edge made intra_process.
StartLocally(c) ==
    LET moved == [c EXCEPT
                      !.process = [p \in (DOMAIN c.process)
                                             \cup {"mainprocess"} |->
                                       "localhost"],
                      !.node = [n \in DOMAIN c.node |->
                                    [c.node[n] EXCEPT
                                         !.process = "mainprocess"]]]
        den   == cfg_denormalize(moved)
        local == [den.cfg EXCEPT !.edge =
                      [i \in 1..Len(den.cfg.edge) |->
                           [den.cfg.edge[i] EXCEPT
                                !.ipc_type = "intra_process",
                                !.list_id_process = {"mainprocess"}]]]
    IN  [den EXCEPT !.cfg = WithIds(local, "localhost", "mainprocess")]

\* What an operation leaves behind: its outcome and the config it worked on.
Snapshot(op, raised, c) == [op |-> op, raised |-> raised, cfg |-> c]

\* A prepared config, to be run in distributed or in local mode.
LifecycleInit ==
    /\ scenario \in {Scenario("lifecycle", FALSE, d) : d \in BOOLEAN}
    /\ cfg \in {SetKey([process |-> placement,
                        node    |-> [n \in GraphNodes |->
                                         NodeCfg(ProcOfNode(n), "arbitrary")],
                        edge    |-> list_edge,
                        host    |-> HostTable(FALSE),
                        queue   |-> QueueTable,
                        data    |-> data],
                       "runtime", [id |-> RuntimeIds]) :
                    placement \in LifecyclePlacements,
                    list_edge \in SysEdgeLists, data \in DataChoices}
    /\ SchedulersAbsent
    /\ SysIdle

\* xact.sys.start(cfg) up to the commands to the hosts (distributed mode) or
\* up to the call of xact.proc.start in _run_locally (local mode).
LifecycleSysStart ==
    /\ scenario.name = "lifecycle"
    /\ applied = <<>>
    /\ applied' =
           IF scenario.is_distributed
           THEN <<Snapshot("sys.start", Return(None), WithRunId(cfg))>>
           ELSE LET r == StartLocally(WithRunId(cfg))
                IN  <<Snapshot("sys.start", r.raised, r.cfg)>>
    /\ UNCHANGED <<procvars, heap, mpq, sys_pc, host, endpoint, kill>>

\* xact.host.start on host h: _command has written the id of the host to a
\* deep copy of the config, _setup_host denormalizes that copy.
LifecycleHostStart(h) ==
    /\ scenario.name = "lifecycle"
    /\ scenario.is_distributed
    /\ Len(applied) = 1
    /\ h \in Range(_list_id_host(cfg))
    /\ LET copy == WithIds(applied[1].cfg, h, "tbd")
           r    == cfg_denormalize(copy)
       IN  applied' = Append(applied, Snapshot("host.start", r.raised, r.cfg))
    /\ UNCHANGED <<procvars, heap, mpq, sys_pc, host, endpoint, kill>>

\* xact.proc.start(cfg, id_process, id_process_host, map_queues) up to the
\* main loop: it writes the ids of the runtime block.
LifecycleProcStart(p) ==
    /\ scenario.name = "lifecycle"
    /\ applied # <<>>
    /\ LET last == applied[Len(applied)]
       IN  /\ last.raised.kind = "return"
           /\ IF scenario.is_distributed
              THEN /\ last.op = "host.start"
                   /\ p \in DOMAIN cfg.process
                   /\ cfg.process[p] = last.cfg.runtime.id.id_host
              ELSE last.op = "sys.start" /\ p = "mainprocess"
           /\ applied' = Append(applied,
                  Snapshot("proc.start", Return(None),
                           WithIds(last.cfg, last.cfg.process[p], p)))
    /\ UNCHANGED <<procvars, heap, mpq, sys_pc, host, endpoint, kill>>

LifecycleNext ==
    \/ LifecycleSysStart
    \/ \E h \in HostIds : LifecycleHostStart(h)
    \/ \E p \in SysProcs \cup {"mainprocess"} : LifecycleProcStart(p)

LifecycleSpec == LifecycleInit /\ [][LifecycleNext]_vars

\* The fields of the host, process, node, edge and data sections of config c
\* that the user has declared in config declared.
UserDeclared(c, declared) ==
    [host    |-> [h \in DOMAIN declared.host |->
                      [hostname   |-> c.host[h].hostname,
                       port_range |-> c.host[h].port_range]],
     process |-> [p \in DOMAIN declared.process |-> c.process[p]],
     node    |-> [n \in DOMAIN declared.node |->
                      NodeCfg(c.node[n].process, c.node[n].functionality)],
     edge    |-> [i \in DOMAIN declared.edge |->
                      EdgeCfg(c.edge[i].owner, c.edge[i].id_node_src,
                              c.edge[i].id_node_dst, c.edge[i].dirn)],
     data    |-> c.data]

\* C26: after prepare has returned the config, no operation downstream
\* (xact.sys.start in distributed or local mode, the start of a host agent
\* with its denormalization, the start of a scheduler) changes a field that
\* the user has declared in the host, process, node, edge or data section.
C26_UserDeclaredFieldsUnchanged ==
    scenario.name = "lifecycle" =>
        \A i \in 1..Len(applied) :
            UserDeclared(applied[i].cfg, cfg) = UserDeclared(cfg, cfg)

(***************************************************************************)
(* xact.gen.python.map_allocator: the allocator of a data type makes a     *)
(* prototype once and returns copy.copy of it at each call.  An object of  *)
(* the heap is a dict: items maps each key to the id of the object that is *)
(* its value; the key 'w' is the one that the writes of the model set, and *)
(* its value is the number of the buffer the write went through.           *)
(***************************************************************************)
DictObject(items) == [items |-> items]

\* The data types allocated: an alias of an atomic type, a parameterised
\* type, a compound type with one field, a compound type with a nested
\* compound field and a second field.
AllocDataChoices ==
    (DataChoices \ {<<>>})
        \cup {[t \in {"python_dict"} |->
                  Compound(<<Field("x", Compound(<<Field("y",
                                                    Named("py_dict"))>>)),
                             Field("z", Named("py_dict"))>>)]}

\* PathDict.__setitem__(key, value) on the dict with id ref: a name of the
\* path that is missing is created as a dict.
RECURSIVE PathDict_setitem(_, _, _, _)
PathDict_setitem(objects, ref, key, value) ==
    IF Len(key) = 1
    THEN [objects EXCEPT ![ref].items = SetKey(@, key[1], value)]
    ELSE IF key[1] \in DOMAIN objects[ref].items
    THEN PathDict_setitem(objects, objects[ref].items[key[1]], Tail(key),
                          value)
    ELSE LET new == Len(objects) + 1
         IN  PathDict_setitem(
                 [Append(objects, DictObject(EmptyDict)) EXCEPT
                      ![ref].items = SetKey(@, key[1], new)],
                 new, Tail(key), value)

\* The loop of _make_prototype_instance from node i of list_node on.  Every
\* atomic type of the configs is py_dict: its value is typeinfo['py'](), a
\* new dict.  With an empty dst_path the prototype is that value itself.
RECURSIVE PrototypeLoop(_, _, _)
PrototypeLoop(h, list_info, i) ==
    IF i > Len(list_info) THEN h
    ELSE IF list_info[i].category
                \in {"compound_type", "compound_type_scope_closer"}
    THEN PrototypeLoop(h, list_info, i + 1)
    ELSE LET value   == Len(h.objects) + 1
             objects == Append(h.objects, DictObject(EmptyDict))
         IN  PrototypeLoop(
                 IF list_info[i].dst_path # <<>>
                 THEN [objects   |-> PathDict_setitem(objects, h.prototype,
                                         list_info[i].dst_path, value),
                       prototype |-> h.prototype]
                 ELSE [objects |-> objects, prototype |-> value],
                 list_info, i + 1)

\* _make_prototype_instance(id_type, list_node): object 1 is the dict data
\* of the PathDict that the prototype starts as.
_make_prototype_instance(list_info) ==
    PrototypeLoop([objects |-> <<DictObject(EmptyDict)>>, prototype |-> 1],
                  list_info, 1)

\* copy.copy(getattr(prototype, 'data', prototype)): a new dict with the
\* items of the prototype, the values being the same objects.
copy_copy(objects, ref) ==
    Append(objects, DictObject(objects[ref].items))

\* The allocator that _allocator returns, called once: the new objects and
\* the buffer, which is the last of them.
_allocator(objects, prototype) == copy_copy(objects, prototype)

\* The objects that can be reached from object ref.
RECURSIVE Reach(_, _)
Reach(objects, ref) ==
    {ref} \cup UNION {Reach(objects, objects[ref].items[k]) :
                          k \in (DOMAIN objects[ref].items) \ {"w"}}

\* A data section with one type, denormalized.
AllocInit ==
    /\ scenario = Scenario("allocate", TRUE, FALSE)
    /\ cfg \in {[data |-> data_denormalize(data).data] :
                    data \in AllocDataChoices}
    /\ SchedulersAbsent
    /\ SysIdle

\* map_allocator(cfg_data): the prototype of the type is made.
MapAllocator ==
    /\ scenario.name = "allocate"
    /\ heap = NoHeap
    /\ heap' = _make_prototype_instance(cfg.data["python_dict"].children)
    /\ UNCHANGED <<procvars, mpq, applied, sys_pc, host, endpoint, kill>>

\* The allocator of the type is called: one more buffer.
Allocate ==
    /\ scenario.name = "allocate"
    /\ heap # NoHeap
    /\ Len(applied) < MaxApply
    /\ heap' = [heap EXCEPT !.objects = _allocator(@, heap.prototype)]
    /\ applied' = Append(applied, Len(heap.objects) + 1)
    /\ UNCHANGED <<procvars, mpq, sys_pc, host, endpoint, kill>>

\* A node writes to a buffer or to a mapping nested in it: the object ref
\* is reached from buffer number b and gets the key 'w'.
Write(b, ref) ==
    /\ scenario.name = "allocate"
    /\ b \in 1..Len(applied)
    /\ ref \in Reach(heap.objects, applied[b])
    /\ "w" \notin DOMAIN heap.objects[ref].items
    /\ heap' = [heap EXCEPT !.objects[ref].items = SetKey(@, "w", b)]
    /\ UNCHANGED <<procvars, mpq, applied, sys_pc, host, endpoint, kill>>

AllocNext ==
    \/ MapAllocator
    \/ Allocate
    \/ \E b \in 1..MaxApply, ref \in 1..Len(heap.objects) : Write(b, ref)

AllocSpec == AllocInit /\ [][AllocNext]_vars

\* C27: two buffers of the allocator of a type share nothing that can be
\* written: what has been written through one buffer, to the buffer or to a
\* mapping nested in it, is not seen through another buffer.
C27_AllocationsIndependent ==
    scenario.name = "allocate" =>
        \A b, other \in 1..Len(applied) :
            \A ref \in Reach(heap.objects, applied[other]) :
                ("w" \in DOMAIN heap.objects[ref].items
                     /\ heap.objects[ref].items["w"] = b) => other = b

(***************************************************************************)
(* The run order of a process against its tranches (ConfigureSpec).        *)
(***************************************************************************)
\* The tranches of process p: what topological_sort gives for its graph.
Tranches(p) == topological_sort(_local_acyclic_data_flow(cfg.edge, p))

\* The nodes of process p that are in a tranche.
Covered(p) == UNION Range(Tranches(p))

\* The nodes that the config assigns to process p.
NodesOf(p) == {n \in DOMAIN cfg.node : cfg.node[n].process = p}

\* Whether id u comes before id v in lexicographic order.
IdBefore(u, v) == Position(NodeOrder, u) < Position(NodeOrder, v)

\* C28: the run order of a process holds every node of the process exactly
\* once and no node of another process; the nodes that are in no tranche of
\* the topological sort come after all nodes of the tranches, sorted by id.
C28_RunOrderIsPermutation ==
    \A p \in {"p1", "p2"} :
        (scenario.name = "graph" /\ pc[p] = "reset") =>
            /\ Range(list_node[p]) = NodesOf(p)
            /\ Len(list_node[p]) = Cardinality(NodesOf(p))
            /\ \A u \in NodesOf(p) \ Covered(p) :
                   /\ \A v \in Covered(p) :
                          Position(list_node[p], v)
                              < Position(list_node[p], u)
                   /\ \A v \in NodesOf(p) \ Covered(p) :
                          IdBefore(u, v) =>
                              Position(list_node[p], u)
                                  < Position(list_node[p], v)

\* Process p1 holds all three nodes: b and a are in tranches, b before a,
\* and c, which has no edge, comes after them.
C28_Witness ==
    /\ scenario.name = "graph"
    /\ pc["p1"] = "reset"
    /\ Covered("p1") = {"a", "b"}
    /\ list_node["p1"] = <<"b", "a", "c">>

\* C29: the nodes of a tranche come before the nodes of every later tranche
\* and, of two nodes of one tranche, the one with the smaller id comes
\* first in the run order, the order in which every pass steps the nodes.
C29_TranchesInRankOrderSortedById ==
    \A p \in {"p1", "p2"} :
        (scenario.name = "graph" /\ pc[p] = "reset") =>
            \A i, j \in 1..Len(Tranches(p)) :
                \A u \in Tranches(p)[i], v \in Tranches(p)[j] :
                    (i < j \/ (i = j /\ IdBefore(u, v))) =>
                        /\ Position(list_node[p], u) >= 1
                        /\ Position(list_node[p], u)
                               < Position(list_node[p], v)

\* The first tranche of process p1 holds two nodes, a and c, and the second
\* holds b, whose id is between theirs.
C29_Witness ==
    /\ scenario.name = "graph"
    /\ pc["p1"] = "reset"
    /\ Tranches("p1") = <<{"a", "c"}, {"b"}>>
    /\ list_node["p1"] = <<"a", "c", "b">>

(***************************************************************************)
(* The order of the operations of Node.step (Spec).                        *)
(***************************************************************************)
\* Node n has been stepped and its step function has returned a value or
\* raised a ControlSignal.
StepFnCompleted(n) ==
    LET p == cfg.node[n].process
    IN  /\ n_step'[n] = n_step[n] + 1
        /\ last_call'[p].phase = "step"
        /\ last_call'[p].node = n
        /\ last_call'[p].called
        /\ \/ last_call'[p].out.kind = "return"
           \/ IsControlSignal(last_call'[p].out.val)

\* C30: in a step of a node whose step function returns, or returns or
\* raises a ControlSignal, one item has been read from each input queue of
\* the node before the function is called, which sees that item, and one
\* item has been written to each output queue of the node after it.
C30_ReadCallWriteOncePerQueue ==
    [][\A n \in DOMAIN cfg.node :
           StepFnCompleted(n) =>
               /\ \A e \in InputQueues(n) :
                      /\ pipe[e] # <<>>
                      /\ pipe'[e] = Tail(pipe[e])
                      /\ dst_mem'[e] = Head(pipe[e])
                      /\ seen'[n] = Head(pipe[e])
               /\ \A e \in OutputQueues(n) :
                      buffer'[e] = Append(buffer[e], e)]_vars

(***************************************************************************)
(* The ipc_type that denormalisation gives the edges of a validated config. *)
(***************************************************************************)
\* The denormalised edges of the config together with the process and the
\* host of the nodes at their ends.
EdgePlacements(c) ==
    LET d == PathCfgDenormalized(c)
    IN  {[ipc_type |-> d.edge[i].ipc_type,
          same_process |-> c.node[c.edge[i].src[1]].process
                               = c.node[c.edge[i].dst[1]].process,
          same_host |-> c.process[c.node[c.edge[i].src[1]].process]
                            = c.process[c.node[c.edge[i].dst[1]].process]] :
             i \in 1..Len(c.edge)}

\* C31: for every edge of a config that validation accepted, denormalisation
\* sets ipc_type to intra_process iff the nodes at its ends are in the same
\* process, to inter_process iff they are in different processes on the same
\* host, and to inter_host iff they are on different hosts; the case of one
\* process on two hosts (RuntimeError) does not occur.
C31_IpcTypeDerivation ==
    Accepted =>
        \A e \in EdgePlacements(cfg) :
            /\ (e.ipc_type = "intra_process") <=> e.same_process
            /\ (e.ipc_type = "inter_process") <=>
                   (~e.same_process /\ e.same_host)
            /\ (e.ipc_type = "inter_host") <=> ~e.same_host
            /\ e.ipc_type # "RuntimeError"

\* An accepted config with two processes on one host, with an edge from one
\* to the other and an edge inside one of them.
C31_Witness ==
    /\ Accepted
    /\ ~scenario.same_process
    /\ ~scenario.is_distributed
    /\ \E e \in EdgePlacements(cfg) : e.ipc_type = "inter_process"
    /\ \E e \in EdgePlacements(cfg) : e.ipc_type = "intra_process"

(***************************************************************************)
(* The idx_edge that denormalisation gives the edges.                       *)
(***************************************************************************)
\* The numbers of the inter-host edges of the denormalised config d that
\* host h owns.
OwnedInterHost(d, h) ==
    {k \in 1..Len(d.edge) :
         d.edge[k].ipc_type = "inter_host" /\ d.edge[k].id_host_owner = h}

\* C32: after denormalisation, for each host h the idx_edge values of the
\* inter-host edges that h owns are exactly 0 .. n_h - 1, rising in the
\* order of declaration, so that no two of them are equal; every edge that
\* is not inter-host has the idx_edge None.
C32_EdgeIdxAssignment ==
    (scenario.name = "denormalize" /\ Len(applied) >= 1
         /\ applied[1].raised.kind = "return") =>
        LET d == applied[1].cfg
        IN  /\ \A h \in HostIds :
                   LET owned == OwnedInterHost(d, h)
                   IN  /\ \A k \in owned : d.edge[k].idx_edge # <<>>
                       /\ {d.edge[k].idx_edge[1] : k \in owned}
                              = 0..(Cardinality(owned) - 1)
                       /\ \A j, k \in owned :
                              j < k => d.edge[j].idx_edge[1]
                                           < d.edge[k].idx_edge[1]
            /\ \A k \in 1..Len(d.edge) :
                   d.edge[k].ipc_type # "inter_host" =>
                       d.edge[k].idx_edge = <<>>

\* A denormalised config in which one host owns two inter-host edges, which
\* have the indices 0 and 1.
C32_Witness ==
    /\ scenario.name = "denormalize"
    /\ Len(applied) >= 1
    /\ applied[1].raised.kind = "return"
    /\ \E h \in HostIds :
           /\ OwnedInterHost(applied[1].cfg, h) = {1, 2}
           /\ applied[1].cfg.edge[1].idx_edge = <<0>>
           /\ applied[1].cfg.edge[2].idx_edge = <<1>>

(***************************************************************************)
(* Validation and the lookups of denormalisation over configs whose ids may *)
(* name something that is not declared: the host of a process, the process *)
(* and the state_type of a node, the owner, the data type and the nodes at *)
(* the ends of an edge.                                                    *)
(***************************************************************************)
\* The edges of these configs: a -> b and b -> a as they should be, and a -> b
\* with an owner, a data type, a source node or a destination node that is
\* not declared.
RefEdgeChoices ==
    {PathEdge("b", "python_dict", <<"a", "outputs", "x">>,
              <<"b", "inputs", "x">>, "feedforward"),
     PathEdge("a", "python_dict", <<"b", "outputs", "x">>,
              <<"a", "inputs", "x">>, "feedforward"),
     PathEdge("z", "python_dict", <<"a", "outputs", "x">>,
              <<"b", "inputs", "x">>, "feedforward"),
     PathEdge("b", "no_such_type", <<"a", "outputs", "x">>,
              <<"b", "inputs", "x">>, "feedforward"),
     PathEdge("b", "python_dict", <<"z", "outputs", "x">>,
              <<"b", "inputs", "x">>, "feedforward"),
     PathEdge("b", "python_dict", <<"a", "outputs", "x">>,
              <<"z", "inputs", "x">>, "feedforward")}

RefEdgeLists == UNION {[1..n -> RefEdgeChoices] : n \in 0..MaxEdge}

\* The state_type of node a: none, a declared type, a type not declared.
StateTypeChoices == {"", "python_dict", "no_such_type"}

\* A loaded config in which process p1 is on the host id_host, node a is in
\* the process id_process and has the state type state_type.
RefCfg(two_procs, two_hosts, id_host, id_process, state_type, list_edge) ==
    LET c      == LoadedCfg(two_procs, two_hosts, list_edge)
        node_a == [c.node["a"] EXCEPT !.process = id_process]
    IN  [c EXCEPT !.process["p1"] = id_host,
                  !.node["a"] = IF state_type = "" THEN node_a
                                ELSE SetKey(node_a, "state_type", state_type)]

RefInit ==
    /\ scenario \in {Scenario("validate", x[1], x[2]) :
                         x \in {y \in BOOLEAN \X BOOLEAN : y[2] => ~y[1]}}
    /\ cfg \in {RefCfg(~scenario.same_process, scenario.is_distributed,
                       id_host, id_process, state_type, list_edge) :
                    id_host \in {"h1", "no_such_host"},
                    id_process \in {"p1", "no_such_process"},
                    state_type \in StateTypeChoices,
                    list_edge \in RefEdgeLists}
    /\ SchedulersAbsent
    /\ SysIdle

\* _denormalize_nodes: cfg['process'][id_process] for the process of each
\* node.
_denormalize_nodes(c) ==
    IF \E n \in DOMAIN c.node : c.node[n].process \notin DOMAIN c.process
    THEN Raise(Error("KeyError")) ELSE Return(None)

\* _add_src_info, _add_dst_info and _add_host_owner for one edge:
\* cfg['node'][id_node] for the nodes at its ends and for its owner.
EdgeLookups(c, cfg_edge) ==
    IF {cfg_edge.src[1], cfg_edge.dst[1], cfg_edge.owner} \subseteq DOMAIN c.node
    THEN Return(None) ELSE Raise(Error("KeyError"))

\* _denormalize_edges: the lookups of the loop over cfg['edge'].
_denormalize_edges(c) ==
    FirstRaise([i \in 1..Len(c.edge) |-> EdgeLookups(c, c.edge[i])])

\* xact.cfg.edge.denormalize is applied to the config that validation
\* accepted.
DenormalizeAccepted ==
    /\ Accepted
    /\ Len(applied) = 1
    /\ applied' = Append(applied,
           Outcome("denormalize",
                   FirstRaise(<<_denormalize_nodes(cfg),
                                _denormalize_edges(cfg)>>),
                   "cfg", ""))
    /\ UNCHANGED <<procvars, heap, mpq, sys_pc, host, endpoint, kill>>

RefNext == Validate \/ DenormalizeAccepted

RefSpec == RefInit /\ [][RefNext]_vars

\* C33: every config that validation accepted has the host of every process
\* in the host table, the process of every node in the process table, the
\* state_type of every node that has one and the data type of every edge in
\* the data table, and the owner and the nodes at both ends of every edge in
\* the node table; the denormalisation of an accepted config raises no
\* KeyError.
C33_ReferentialConsistency ==
    Accepted =>
        /\ \A p \in DOMAIN cfg.process : cfg.process[p] \in DOMAIN cfg.host
        /\ \A n \in DOMAIN cfg.node :
               /\ cfg.node[n].process \in DOMAIN cfg.process
               /\ "state_type" \in DOMAIN cfg.node[n] =>
                      cfg.node[n].state_type \in DOMAIN cfg.data
        /\ \A i \in 1..Len(cfg.edge) :
               /\ cfg.edge[i].data \in DOMAIN cfg.data
               /\ {cfg.edge[i].owner, cfg.edge[i].src[1], cfg.edge[i].dst[1]}
                      \subseteq DOMAIN cfg.node
        /\ Len(applied) >= 2 => applied[2].raised.kind = "return"

\* An accepted config with two edges and a state type, after its
\* denormalisation.
C33_Witness ==
    /\ Accepted
    /\ Len(applied) = 2
    /\ applied[2].op = "denormalize"
    /\ Len(cfg.edge) = 2
    /\ "state_type" \in DOMAIN cfg.node["a"]

(***************************************************************************)
(* xact.queue.multiprocessing.Queue on its own.  multiprocessing.Queue()   *)
(* with no maxsize has a bounded semaphore of QueueMaxSize free slots: put *)
(* takes a slot, get gives it back.  The fill levels looked at are those   *)
(* within MaxSlack of empty and within MaxSlack of full.                   *)
(***************************************************************************)
\* No operation has been done on the queue.
NoOp == [op |-> "none", raised |-> Return(None), before |-> 0]

\* The free slots of a queue that is near empty or near full.
SemLevels ==
    (0..MaxSlack) \cup {QueueMaxSize - k : k \in 0..MaxSlack}

MpQueueInit ==
    /\ scenario = Scenario("queue", FALSE, FALSE)
    /\ cfg = denormalize(SysCfg([p \in SysProcs |-> "localhost"], <<>>, FALSE))
    /\ SchedulersAbsent
    /\ sys_pc = [pc |-> "idle", i |-> 1, ret |-> <<>>]
    /\ host = [h \in HostIds |-> HostIdle]
    /\ endpoint = [h \in HostIds |-> <<>>]
    /\ kill = [pc |-> "idle", alive |-> {}, waited |-> {}]
    /\ applied = <<>>
    /\ heap = NoHeap
    /\ mpq \in [EdgeIds -> {[sem |-> sem, last |-> NoOp] : sem \in SemLevels}]

\* Queue.non_blocking_write(msg): self._queue.put(msg, block = False).
MpPut(e) ==
    /\ scenario.name = "queue"
    /\ mpq[e].sem - 1 \in SemLevels \/ mpq[e].sem <= 0
    /\ mpq' = [mpq EXCEPT ![e] =
                   IF _sem_acquire(mpq[e].sem)
                   THEN [sem |-> mpq[e].sem - 1,
                         last |-> [op |-> "put", raised |-> Return(None),
                                   before |-> mpq[e].sem]]
                   ELSE [sem |-> mpq[e].sem,
                         last |-> [op |-> "put", raised |-> Raise(Error("Full")),
                                   before |-> mpq[e].sem]]]
    /\ UNCHANGED <<procvars, heap, applied, sys_pc, host, endpoint, kill>>

\* Queue.blocking_read(): self._queue.get(block = True) waits while the
\* queue holds no item.
MpGet(e) ==
    /\ scenario.name = "queue"
    /\ mpq[e].sem < QueueMaxSize
    /\ mpq[e].sem + 1 \in SemLevels
    /\ mpq' = [mpq EXCEPT ![e] =
                   [sem |-> mpq[e].sem + 1,
                    last |-> [op |-> "get", raised |-> Return(None),
                              before |-> mpq[e].sem]]]
    /\ UNCHANGED <<procvars, heap, applied, sys_pc, host, endpoint, kill>>

MpQueueNext == \E e \in EdgeIds : MpPut(e) \/ MpGet(e)

MpQueueSpec == MpQueueInit /\ [][MpQueueNext]_vars

UndefinedType == 0

_is_finished(table) == DOMAIN table = {}

_missing_set(table) == UNION {table[t] : t \in DOMAIN table}

_incomplete_set(table) == DOMAIN table

_ready_set(table) == _missing_set(table) \ _incomplete_set(table)

\* _fill_gaps_with_ready_types: _fill_gaps_of_type for every ready type and
\* every incomplete type.  output[ready_path] raises KeyError for a ready
\* type that output does not hold; otherwise the entries of the ready types
\* are deleted and with them the incomplete types that have no entry left.
_fill_gaps_with_ready_types(table, output, ready_set) ==
    IF ~(ready_set \subseteq output)
    THEN [op |-> "pass", raised |-> Raise(Error("KeyError")),
          table |-> table, output |-> output]
    ELSE [op |-> "pass", raised |-> Return(None),
          table |-> [t \in {u \in DOMAIN table : table[u] \ ready_set # {}}
                         |-> table[t] \ ready_set],
          output |-> output]

\* The table after the calls of GapTable.add for a chain of depth types each
\* of which refers to the next, the last of them to a type that is complete.
ChainTable(depth) ==
    [op |-> "add", raised |-> Return(None),
     table |-> [t \in 1..depth |-> {t + 1}], output |-> 1..(depth + 1)]

\* The tables of three types each of which refers to any of the three and
\* to a type that is not defined.
SmallTables ==
    {[op |-> "add", raised |-> Return(None),
      table |-> [t \in {u \in 1..3 : m[u] # {}} |-> m[t]], output |-> 1..3] :
         m \in [1..3 -> SUBSET {UndefinedType, 1, 2, 3}]}

GapInit ==
    /\ scenario = Scenario("gap_table", TRUE, FALSE)
    /\ cfg = denormalize(SysCfg([p \in SysProcs |-> "localhost"], <<>>, FALSE))
    /\ SchedulersAbsent
    /\ sys_pc = [pc |-> "idle", i |-> 1, ret |-> <<>>]
    /\ host = [h \in HostIds |-> HostIdle]
    /\ endpoint = [h \in HostIds |-> <<>>]
    /\ kill = [pc |-> "idle", alive |-> {}, waited |-> {}]
    /\ heap = NoHeap
    /\ mpq = <<>>
    /\ applied \in {<<g>> : g \in {ChainTable(depth) : depth \in 0..MaxChain}
                                      \cup SmallTables}

\* fill_all is in its loop: no pass has raised and it has not ended.
InFillLoop ==
    /\ scenario.name = "gap_table"
    /\ applied[Len(applied)].op \in {"add", "pass"}
    /\ applied[Len(applied)].raised.kind = "return"

\* One iteration of the loop of fill_all that does not break: the gaps of
\* the ready types are filled, or there is no ready type and RuntimeError is
\* raised.  The passes made so far are Len(applied) - 1.
FillPass ==
    /\ InFillLoop
    /\ Len(applied) - 1 < sanity_limit
    /\ LET last == applied[Len(applied)]
       IN  /\ ~_is_finished(last.table)
           /\ applied' = Append(applied,
                  IF _ready_set(last.table) = {}
                  THEN [op |-> "pass",
                        raised |-> Raise(Error("RuntimeError: Undefined type or cyclic reference.")),
                        table |-> last.table, output |-> last.output]
                  ELSE _fill_gaps_with_ready_types(
                           last.table, last.output, _ready_set(last.table)))
    /\ UNCHANGED <<procvars, heap, mpq, sys_pc, host, endpoint, kill>>

\* The loop of fill_all ends, by break or after sanity_limit passes, and the
\* test after it returns or raises.
FillAllReturns ==
    /\ InFillLoop
    /\ LET last == applied[Len(applied)]
       IN  /\ _is_finished(last.table) \/ Len(applied) - 1 >= sanity_limit
           /\ applied' = Append(applied,
                  [op |-> "fill_all",
                   raised |-> IF _is_finished(last.table) THEN Return(None)
                              ELSE Raise(Error("RuntimeError: Logic error")),
                   table |-> last.table, output |-> last.output])
    /\ UNCHANGED <<procvars, heap, mpq, sys_pc, host, endpoint, kill>>

GapNext == FillPass \/ FillAllReturns

GapSpec == GapInit /\ [][GapNext]_vars

\* The pairs of a type and a type it reaches in at most n + 1 references.
RECURSIVE RefClosure(_, _, _)
RefClosure(r, g, n) ==
    IF n = 0 THEN r ELSE RefClosure(r \cup Compose(r, g), g, n - 1)

\* No type refers to itself through any number of references, and every
\* type referred to is defined.
AcyclicAndDefined(g) ==
    LET refs == UNION {{<<t, m>> : m \in g.table[t]} : t \in DOMAIN g.table}
    IN  /\ \A t \in DOMAIN g.table : g.table[t] \subseteq g.output
        /\ \A t \in DOMAIN g.table :
               <<t, t>> \notin RefClosure(refs, refs, Cardinality(DOMAIN g.table))

\* fill_all has returned or raised.
FillAllEnded ==
    /\ scenario.name = "gap_table"
    /\ \/ applied[Len(applied)].op = "fill_all"
       \/ applied[Len(applied)].raised.kind = "raise"

\* C35: fill_all ends; it returns with every gap filled whenever the
\* references between the types have no cycle and every type referred to is
\* defined, however long the chain of references, and it raises exactly when
\* there is a cycle or a type that is not defined.
C35_GapFillingFixedPoint ==
    FillAllEnded =>
        LET last == applied[Len(applied)]
        IN  /\ (last.raised.kind = "return") <=> AcyclicAndDefined(applied[1])
            /\ last.raised.kind = "return" => _is_finished(last.table)

(***************************************************************************)
(* A scheduler pass in which a node has emitted Halt or                    *)
(* NonRecoverableError before the last node has run.                       *)
(***************************************************************************)
\* The nodes of process p at the positions from lo to hi of its run order.
NodesAt(p, lo, hi) ==
    {list_node[p][i] : i \in {k \in 1..Len(list_node[p]) : lo <= k /\ k <= hi}}

\* In a step pass of process p the nodes before idx[p] have been stepped
\* once more than the nodes from idx[p] on.
SteppedOncePerPass(p) ==
    pc[p] \in {"step", "step_handle"} =>
        /\ \A u, v \in NodesAt(p, 1, idx[p] - 1) : n_step[u] = n_step[v]
        /\ \A u, v \in NodesAt(p, idx[p], Len(list_node[p])) :
               n_step[u] = n_step[v]
        /\ \A u \in NodesAt(p, 1, idx[p] - 1),
              v \in NodesAt(p, idx[p], Len(list_node[p])) :
               n_step[u] = n_step[v] + 1

\* Process p is in a step pass, a node of the pass has emitted Halt or
\* NonRecoverableError, and a node is still to run.
SignalPending(p) ==
    /\ pc[p] = "step"
    /\ 1 < idx[p]
    /\ idx[p] <= Len(list_node[p])
    /\ \E i \in 1..Len(list_signal[p]) :
           list_signal[p][i].type \in {"Halt", "NonRecoverableError"}

\* C36: in every step pass each node of the run order is stepped exactly
\* once, also after an earlier node of the pass has emitted Halt or
\* NonRecoverableError: while such a signal is pending the one thing the
\* scheduler does is Node.step of the next node, and a scheduler ends with
\* a signal only in _handle_signals after the last node has run.  So a later
\* node that waits in blocking_read keeps the signal from being handled.
C36_SignalsHandledAfterLastNode ==
    /\ [](\A p \in ProcessIds : SteppedOncePerPass(p))
    /\ [][\A p \in ProcessIds :
              /\ (SignalPending(p)
                      /\ <<pc[p], idx[p], term[p], list_signal[p]>>
                             # <<pc'[p], idx'[p], term'[p], list_signal'[p]>>) =>
                     n_step'[list_node[p][idx[p]]]
                         = n_step[list_node[p][idx[p]]] + 1
              /\ (term'[p] # term[p]
                      /\ term'[p].kind \in {"Halt", "NonRecoverableError"}) =>
                     /\ pc[p] \in {"reset_handle", "step_handle"}
                     /\ idx[p] = Len(list_node[p]) + 1]_vars

\* Node a has emitted Halt in the running pass and node b, next in the run
\* order, finds its input queue empty.
C36_Witness ==
    /\ scenario.name = "postponed"
    /\ SignalPending("p1")
    /\ list_node["p1"][idx["p1"]] = "b"
    /\ \E e \in InputQueues("b") : pipe[e] = <<>>
    /\ term["p1"] = <<>>

(***************************************************************************)
(* The end of one process and the processes that read what it wrote.       *)
(***************************************************************************)
\* Process q is in Node.step of a node that has an inter-process input edge
\* which holds no item and whose source is in a process that has exited.
BlockedOnExitedProducer(q) ==
    /\ pc[q] = "step"
    /\ idx[q] <= Len(list_node[q])
    /\ \E e \in InputQueues(list_node[q][idx[q]]) :
           /\ cfg.edge[e].ipc_type = "inter_process"
           /\ buffer[e] = <<>>
           /\ pipe[e] = <<>>
           /\ pc[cfg.node[cfg.edge[e].id_node_src].process] = "exited"

\* host.start has joined all the processes it started.
AllJoined == \A p \in LocalProcesses(scenario) : pc[p] = "exited"

\* C37: the end of a process is not passed on to any other process: the
\* step in which a process ends changes nothing of another process, and a
\* process that waits in blocking_read on an empty inter-process edge whose
\* producer process has exited waits for ever, so that the joins of
\* host.start never all return.
C37_TerminationNotPropagated ==
    /\ [][\A p, q \in ProcessIds :
              (p # q /\ pc[p] # "exited" /\ pc'[p] = "exited") =>
                  /\ pc'[q] = pc[q]
                  /\ list_signal'[q] = list_signal[q]
                  /\ term'[q] = term[q]]_vars
    /\ [][\A q \in ProcessIds :
              BlockedOnExitedProducer(q) =>
                  /\ BlockedOnExitedProducer(q)'
                  /\ <<pc[q], idx[q], term[q]>> = <<pc'[q], idx'[q], term'[q]>>
                  /\ ~AllJoined']_vars

\* The producer process has exited and the consumer process waits on the
\* empty edge.
C37_Witness ==
    /\ scenario.name = "orphaned"
    /\ pc["p1"] = "exited"
    /\ BlockedOnExitedProducer("p2")

(***************************************************************************)
(* C38: which collected values the scheduler honours.                      *)
(***************************************************************************)
\* The class names that _handle_signals looks for.
HonouredNames == {"NonRecoverableError", "Halt", "ResetAndRetry"}

\* Whether no value of the list has one of the three class names.
NoneHonoured(list) == \A i \in 1..Len(list) : list[i].type \notin HonouredNames

\* C38: when _handle_signals runs at the end of a step pass, a scheduler
\* ends only with a collected value whose class name is NonRecoverableError
\* or Halt and goes back to reset only if a collected value has the class
\* name ResetAndRetry; if no collected value has one of the three names,
\* whatever else was collected (a return value that is no signal, a signal
\* of a user-defined class) is dropped: nothing is raised, no retry is
\* counted, nothing ends and the next pass starts at its first node.
C38_OnlyNamedSignalsHonoured ==
    [][\A p \in ProcessIds :
           (pc[p] = "step_handle" /\ pc'[p] # "step_handle") =>
               /\ NoneHonoured(list_signal[p]) =>
                      /\ pc'[p] = "step"
                      /\ idx'[p] = 1
                      /\ term'[p] = term[p]
                      /\ exit_status'[p] = exit_status[p]
                      /\ n_retry'[p] = n_retry[p]
               /\ pc'[p] = "exited" =>
                      /\ term'[p].val \in Range(list_signal[p])
                      /\ term'[p].val.type \in {"NonRecoverableError", "Halt"}
               /\ pc'[p] = "reset" =>
                      \E i \in 1..Len(list_signal[p]) :
                          list_signal[p][i].type = "ResetAndRetry"]_vars

\* A pass that collected a return value that is no signal and a signal of a
\* user-defined class, and nothing else, has been followed by the next pass.
C38_Witness ==
    \E p \in ProcessIds :
        /\ pc[p] = "step"
        /\ idx[p] = 1
        /\ last_call[p].phase = "step"
        /\ term[p] = <<>>
        /\ Object \in Range(list_signal[p])
        /\ UserSignal \in Range(list_signal[p])
        /\ NoneHonoured(list_signal[p])

(***************************************************************************)
(* C39: the outputs of a coroutine node.                                   *)
(***************************************************************************)
\* The nodes whose functionality is a generator supplied by the user.
CoroNodes ==
    {n \in DOMAIN cfg.node : cfg.node[n].functionality = "arbitrary_coro"}

\* The content of the outputs mapping of node n after a send in which the
\* generator made the update in place m, the mapping holding content before.
AfterUpdate(m, content) == IF m = <<"kept">> THEN content ELSE <<m[2]>>

\* C39: what a step of a coroutine node leaves in the outputs mapping of the
\* node, and so what its consumers in the process see and what is written to
\* its output queues, is the content before the step with the update that
\* the generator made in place, whatever object the generator yielded: with
\* no update in place the consumers are given the old content again, and the
\* content of a new object that was yielded reaches no consumer.
C39_YieldedOutputsDiscarded ==
    /\ [][\A n \in CoroNodes :
              (n_step'[n] # n_step[n]
                   /\ last_call'[cfg.node[n].process].called) =>
                  LET m == node_state'[n][1]
                  IN  /\ Outputs(n, src_mem') = AfterUpdate(m, Outputs(n, src_mem))
                      /\ \A e \in OutEdges(n) :
                             src_mem'[e] = Outputs(n, src_mem')
                      /\ wrote'[n] # wrote[n] =>
                             wrote'[n] = Append(wrote[n],
                                            AfterUpdate(m, Outputs(n, src_mem)))
                      /\ \A e \in OutputQueues(n) :
                             buffer'[e] # buffer[e] =>
                                 buffer'[e] = Append(buffer[e], e)]_vars
    /\ [](\A n \in CoroNodes : \A e \in OutEdges(n) :
              LET d == cfg.edge[e].id_node_dst
              IN  /\ n_step[d] > 0 => seen[d] # <<2>>
                  /\ \A i \in 1..Len(pipe[e]) : pipe[e][i] # <<2>>)

\* The generator has yielded a new object twice without an update in place,
\* and both consumers have then been stepped on the content that the
\* mapping held before.
C39_Witness ==
    /\ scenario.name = "coro_outputs"
    /\ n_step["a"] = 2
    /\ node_state["a"] = <<<<"kept">>, <<"new", 2>>>>
    /\ wrote["a"] = <<<<0>>, <<0>>>>
    /\ n_step["b"] > 0
    /\ seen["b"] = <<0>>
    /\ n_step["c"] > 0
    /\ seen["c"] = <<0>>

(***************************************************************************)
(* C40: the loop of xact.util.topological_sort, iteration by iteration,    *)
(* over every graph of at most MaxArcs arcs over three nodes, self-loops    *)
(* and cycles included, and the run order that xact.proc makes of what it   *)
(* returns.  applied holds the log of the call: its last entry has the      *)
(* graph, map_indegree and list_set_ranks as they are.                      *)
(***************************************************************************)
TopoNodes == {"a", "b", "c"}

TopoGraphs ==
    {graph \in SUBSET (TopoNodes \X TopoNodes) : Cardinality(graph) <= MaxArcs}

\* topological_sort up to its loop: map_indegree holds the nodes of the
\* graph with the count of their inbound arcs; the nodes at count zero make
\* the first rank and are deleted.
TopoBegin(graph) ==
    LET set_node_out  == {e[1] : e \in graph}
        set_node_in   == {e[2] : e \in graph}
        map_indegree  == [key \in set_node_out \cup set_node_in |->
                              Cardinality({e \in graph : e[2] = key})]
        set_rank_zero == _nodes_at_count_zero(map_indegree)
    IN  [op |-> "begin", raised |-> Return(None), graph |-> graph,
         map_indegree |-> _del_items(map_indegree, set_rank_zero),
         list_set_ranks |-> <<set_rank_zero>>, list_id_node |-> <<>>]

TopoInit ==
    /\ scenario = Scenario("topological_sort", TRUE, FALSE)
    /\ cfg = denormalize(GraphCfg(<<>>, "p1"))
    /\ SchedulersAbsent
    /\ sys_pc = [pc |-> "idle", i |-> 1, ret |-> <<>>]
    /\ host = [h \in HostIds |-> HostIdle]
    /\ endpoint = [h \in HostIds |-> <<>>]
    /\ kill = [pc |-> "idle", alive |-> {}, waited |-> {}]
    /\ heap = NoHeap
    /\ mpq = <<>>
    /\ applied \in {<<TopoBegin(graph)>> : graph \in TopoGraphs}

\* topological_sort is in its loop.
InTopoLoop ==
    /\ scenario.name = "topological_sort"
    /\ applied[Len(applied)].op \in {"begin", "rank"}
    /\ applied[Len(applied)].raised.kind = "return"

\* _list_downstream_neighbors as the set of arcs that leave set_id_node.
_list_downstream_neighbors(set_id_node, graph) ==
    {e \in graph : e[1] \in set_id_node}

\* The first part of an iteration: map_indegree[id_node] -= 1 for every
\* downstream neighbour of the last rank.  A neighbour that is not a key
\* raises KeyError.
TopoDecrement(last) ==
    LET set_prev  == last.list_set_ranks[Len(last.list_set_ranks)]
        neighbors == _list_downstream_neighbors(set_prev, last.graph)
    IN  IF \E e \in neighbors : e[2] \notin DOMAIN last.map_indegree
        THEN [raised |-> Raise(Error("KeyError")),
              map_indegree |-> last.map_indegree]
        ELSE [raised |-> Return(None),
              map_indegree |->
                  [key \in DOMAIN last.map_indegree |->
                       last.map_indegree[key]
                           - Cardinality({e \in neighbors : e[2] = key})]]

\* An iteration that does not break: the next rank exists, is deleted from
\* map_indegree and appended (or the decrement raises).
TopoRank ==
    /\ InTopoLoop
    /\ LET last == applied[Len(applied)]
           dec  == TopoDecrement(last)
           set_next == _nodes_at_count_zero(dec.map_indegree)
       IN  /\ dec.raised.kind = "raise" \/ set_next # {}
           /\ applied' = Append(applied,
                  IF dec.raised.kind = "raise"
                  THEN [last EXCEPT !.op = "rank", !.raised = dec.raised]
                  ELSE [last EXCEPT
                            !.op = "rank",
                            !.map_indegree = _del_items(dec.map_indegree,
                                                        set_next),
                            !.list_set_ranks = Append(@, set_next)])
    /\ UNCHANGED <<procvars, heap, mpq, sys_pc, host, endpoint, kill>>

\* The iteration that breaks: there is no next rank and topological_sort
\* returns list_set_ranks, of which _get_list_id_node_in_runorder makes the
\* run order of a process that holds the three nodes.
TopoReturn ==
    /\ InTopoLoop
    /\ LET last == applied[Len(applied)]
           dec  == TopoDecrement(last)
           list_id_node ==
               _specify_detailed_execution_order(last.list_set_ranks)
       IN  /\ dec.raised.kind = "return"
           /\ _nodes_at_count_zero(dec.map_indegree) = {}
           /\ applied' = Append(applied,
                  [last EXCEPT
                       !.op = "return",
                       !.map_indegree = dec.map_indegree,
                       !.list_id_node =
                           list_id_node
                               \o sorted(_get_list_id_node_unscheduled(
                                             cfg.node, list_id_node, "p1"))])
    /\ UNCHANGED <<procvars, heap, mpq, sys_pc, host, endpoint, kill>>

TopoNext == TopoRank \/ TopoReturn

TopoSpec == TopoInit /\ [][TopoNext]_vars

\* The nodes of a graph over TopoNodes that are on a cycle or downstream of
\* one (three nodes: a path has at most three arcs).
OnOrAfterCycle(graph) ==
    LET r2 == Compose(graph, graph)
        reach == graph \cup r2 \cup Compose(r2, graph)
        on_cycle == {n \in TopoNodes : <<n, n>> \in reach}
    IN  on_cycle \cup {n \in TopoNodes : \E c \in on_cycle : <<c, n>> \in reach}

\* The nodes with an outbound arc and no inbound arc.
AcyclicSources(graph) == {e[1] : e \in graph} \ {e[2] : e \in graph}

\* C40: topological_sort ends for every graph, with cycles or self-loops or
\* without: an iteration of its loop raises nothing and either breaks or
\* appends a rank of nodes that are in no earlier rank, so that there are at
\* most as many iterations as nodes and one; no node is in two ranks; the
\* ranks returned hold the nodes of the graph but those on a cycle or
\* downstream of one; a graph with no node that has outbound arcs only gives
\* the single empty rank; and the run order of the process is the ranks in
\* order, each sorted by id, followed by all other nodes sorted by id.
C40_TopologicalSortTotal ==
    scenario.name = "topological_sort" =>
        LET last  == applied[Len(applied)]
            ranks == last.list_set_ranks
            emitted == UNION Range(ranks)
        IN  /\ last.raised.kind = "return"
            /\ Len(applied) <= Cardinality(TopoNodes) + 2
            /\ InTopoLoop => ENABLED TopoNext
            /\ \A i, j \in 1..Len(ranks) : i # j => ranks[i] \cap ranks[j] = {}
            /\ \A i \in 2..Len(ranks) : ranks[i] # {}
            /\ emitted \cap OnOrAfterCycle(last.graph) = {}
            /\ last.op = "return" =>
                   /\ ranks = topological_sort(last.graph)
                   /\ emitted = ({e[1] : e \in last.graph}
                                     \cup {e[2] : e \in last.graph})
                                    \ OnOrAfterCycle(last.graph)
                   /\ AcyclicSources(last.graph) = {} => ranks = <<{}>>
                   /\ last.list_id_node =
                          _specify_detailed_execution_order(ranks)
                              \o sorted(TopoNodes \ emitted)
                   /\ Len(last.list_id_node) = Cardinality(TopoNodes)

\* topological_sort has returned for a graph in which a is a source, b has
\* a self-loop and c is downstream of b: a is the only node in a rank, and
\* b and c come after it in the run order.
C40_Witness ==
    /\ scenario.name = "topological_sort"
    /\ applied[Len(applied)].op = "return"
    /\ applied[Len(applied)].graph = {<<"a", "b">>, <<"b", "b">>, <<"b", "c">>}
    /\ applied[Len(applied)].list_set_ranks = <<{"a"}>>
    /\ applied[Len(applied)].list_id_node = <<"a", "b", "c">>

====
